---------------------------- MODULE Spec2Model ----------------------------
(***************************************************************************)
(* gFlex, two-dimensional flexure (src/f2d.py): one F2D model instance,    *)
(* its attributes, and the steps of F2D.run().                             *)
(*                                                                         *)
(* Numbers.  The code works in floating point; the model works in exact    *)
(* integers.  Every stencil coefficient is stored multiplied by dx4*dy4,   *)
(* so that a/dx4, a/dy4 and a/dx2dy2 become a*dy4, a*dx4 and a*dx2dy2; the *)
(* factor is the same for every coefficient array of one instance, so      *)
(* equalities, sums and zero tests are those of the code's real            *)
(* arithmetic.  Young's modulus is chosen so that D = E*Te^3/(12(1-nu^2))  *)
(* is a multiple of 64, which makes the halvings and quarterings of the    *)
(* rigidity derivatives and the products with nu exact.                    *)
(*                                                                         *)
(* np.inf and np.nan are two values outside the range of the finite        *)
(* numbers of the model; Add implements their IEEE addition rules.         *)
(*                                                                         *)
(* A numpy array of shape (ny, nx) is a function [0..ny-1 -> [0..nx-1 ->   *)
(* value]].  A Python scalar is the one-element tuple <<v>>, so that       *)
(* np.isscalar is a test on the domain.  An attribute that does not exist  *)
(* on the instance holds the absent value of its kind.                     *)
(***************************************************************************)
EXTENDS Integers, Sequences, FiniteSets, TLC

VARIABLES
  self,    \* the attributes of the F2D instance
  pc,      \* the position of the solve inside run()
  clock,   \* the number of time.time() readings taken so far
  pre,     \* the attributes as they were when run() was entered
  exitmsg, \* the message of the sys.exit() that ended the solve, or NoString
  call,    \* the last call fd_solve made to a scipy solver, or NoCall
  env      \* the GRASS region and the flag l that r.flexure ran with

vars == <<self, pc, clock, pre, exitmsg, call, env>>

-----------------------------------------------------------------------------
(* Bounds of the model *)

\* the longer side of an oblong grid (the shorter side and the square grid are 5)
MaxN == 6
\* the largest elastic thickness of a cell
MaxTe == 3
\* the number of non-uniform elastic-thickness fields
MaxPattern == 2
\* the largest grid spacing
MaxDx == 2
\* the clock reading from which the caller starts no further solve
MaxClock == 5
\* the longer side of a grid of loads for the analytical solutions
MaxCells == 3
\* the largest load on a cell or at a point
MaxLoad == 2

-----------------------------------------------------------------------------
(* Values *)

Inf == 1000000000
NaN == 0 - 1000000000

IsInf(a) == a = Inf
IsNaN(a) == a = NaN
IsFinite(a) == a # Inf /\ a # NaN

\* a + b in IEEE arithmetic, for operands that are finite, +inf or nan
Add(a, b) ==
  IF a = NaN \/ b = NaN THEN NaN
  ELSE IF a = Inf \/ b = Inf THEN Inf
  ELSE a + b

\* the value of an arithmetic expression over the operands ops: nan as soon
\* as one operand is nan
NanIf(ops, v) == IF NaN \in ops THEN NaN ELSE v

\* absent attributes
NoArray == <<>>
NoNumber == 0 - 1
NoString == "absent"
NoMatrix == [diags |-> <<>>, offsets |-> <<>>, n |-> 0]

Scalar(v) == <<v>>
IsScalar(x) == DOMAIN x = {1}
IsArray(x) == 0 \in DOMAIN x

-----------------------------------------------------------------------------
(* Arrays *)

NRows(A) == Cardinality(DOMAIN A)
NCols(A) == Cardinality(DOMAIN A[0])
RowsOf(A) == DOMAIN A
ColsOf(A) == DOMAIN A[0]

\* Python's index i (negative: from the end) into an axis of length n
Idx(i, n) == IF i < 0 THEN n + i ELSE i

Full(ny, nx, v) == [r \in 0..(ny - 1) |-> [c \in 0..(nx - 1) |-> v]]

\* np.roll(A, s, 1) and np.roll(A, s, 0)
Roll1(A, s) ==
  [r \in RowsOf(A) |-> [c \in ColsOf(A) |-> A[r][(c - s) % NCols(A)]]]
Roll0(A, s) ==
  [r \in RowsOf(A) |-> [c \in ColsOf(A) |-> A[(r - s) % NRows(A)][c]]]

\* np.reshape(A, -1, order='C'): element k of the flattened array
Flat(A, k) == A[k \div NCols(A)][k % NCols(A)]


\* the sparse operator scipy.sparse.spdiags(diags, offsets, n, n) stores:
\* entry (i, j) is the element j of the diagonal whose offset is j - i
RECURSIVE DiagSum(_, _, _, _)
DiagSum(M, i, j, k) ==
  IF k = 0 THEN 0
  ELSE (IF M.offsets[k] = j - i THEN M.diags[k][j] ELSE 0)
       + DiagSum(M, i, j, k - 1)

MatEntry(M, i, j) == DiagSum(M, i, j, Len(M.offsets))

\* whether entry (i, j) is stored at all, and whether a stored element of it
\* is not a finite number
Stored(M, i, j) == \E k \in DOMAIN M.offsets : M.offsets[k] = j - i
EntryFinite(M, i, j) ==
  \A k \in DOMAIN M.offsets : M.offsets[k] = j - i => IsFinite(M.diags[k][j])

-----------------------------------------------------------------------------
(* Labels and inputs *)

Methods == {"FD", "FFT", "SAS", "SAS_NG"}
BCLabels == {"Dirichlet0", "0Moment0Shear", "0Slope0Shear", "Mirror", "Periodic"}
PlateSolutionTypes == {"vWC1994", "LinearTeVariationsOnly", "G2009"}

\* a label that is none of the recognised ones
Unrecognized == "Unrecognized"

\* Poisson's ratio nu = NuNum / NuDen
NuNum == 1
NuDen == 4

\* the 13 coefficient arrays, named as in the code: cj<x offset>i<y offset>,
\* an underscore for a minus sign
CoeffNames ==
  {"cj_2i0", "cj_1i_1", "cj_1i0", "cj_1i1", "cj0i_2", "cj0i_1", "cj0i0",
   "cj0i1", "cj0i2", "cj1i_1", "cj1i0", "cj1i1", "cj2i0"}

NoCoeffs == [k \in CoeffNames |-> NoArray]

\* the arrays of the extra diagonals of a West/East periodic pair
NoPeriodic ==
  [cj_1i1_Periodic_right |-> NoArray, cj_2i0_Periodic_right |-> NoArray,
   cj1i_1_Periodic_left |-> NoArray, cj2i0_Periodic_left |-> NoArray]

\* a non-uniform elastic-thickness field, one for each p >= 1
TeField(p, ny, nx) ==
  [r \in 0..(ny - 1) |-> [c \in 0..(nx - 1) |->
     1 + ((p * r * r + (p + 1) * c + r * c + p) % MaxTe)]]

\* an operator handed in by the caller instead of being built
SuppliedMatrix(n) ==
  [diags |-> <<[k \in 0..(n - 1) |-> 1]>>, offsets |-> <<0>>, n |-> n]

\* a supplied operator whose system is singular: a zero on the diagonal
SingularMatrix(n) ==
  [diags |-> <<[k \in 0..(n - 1) |-> IF k = 0 THEN 0 ELSE 1]>>,
   offsets |-> <<0>>, n |-> n]

\* no solver has been called
NoCall ==
  [name |-> NoString, tol |-> NoNumber, info |-> NoNumber, singular |-> FALSE]

\* the instance after construction and set_value() of the inputs in cfg
Instance(cfg) ==
  [ method |-> cfg.method,
    BC_W |-> cfg.BC_W, BC_E |-> cfg.BC_E, BC_N |-> cfg.BC_N, BC_S |-> cfg.BC_S,
    PlateSolutionType |-> cfg.PlateSolutionType,
    Te |-> cfg.Te,
    q0 |-> cfg.q0,
    x |-> cfg.x, y |-> cfg.y,
    dx |-> cfg.dx, dy |-> cfg.dy,
    E |-> 720, drho |-> 3, g |-> 2,
    solver |-> cfg.solver,
    iterative_ConvergenceTolerance |-> cfg.tolerance,
    solver_start_time |-> NoNumber, method_func |-> NoString,
    time_to_solve |-> NoNumber,
    dx4 |-> NoNumber, dy4 |-> NoNumber, dx2dy2 |-> NoNumber,
    D |-> NoArray, alpha |-> NoArray, coeff |-> NoArray,
    coeff_start_time |-> NoNumber, coeff_creation_time |-> NoNumber,
    BC_Rigidity_W |-> NoString, BC_Rigidity_E |-> NoString,
    BC_Rigidity_N |-> NoString, BC_Rigidity_S |-> NoString,
    Te_unpadded |-> NoArray,
    raw |-> NoCoeffs,      \* the arrays cj.._coeff_ij
    coef |-> NoCoeffs,     \* the working arrays cj..
    per |-> NoPeriodic,
    ncolsx |-> NoNumber, nrowsy |-> NoNumber,
    ny |-> NoNumber, nx |-> NoNumber,
    diags |-> NoArray, offsets |-> NoArray,
    coeff_matrix |-> IF ~cfg.supplied THEN NoMatrix
                     ELSE IF cfg.singular THEN SingularMatrix(cfg.ny * cfg.nx)
                     ELSE SuppliedMatrix(cfg.ny * cfg.nx),
    w |-> NoArray, w_padded |-> NoArray ]

-----------------------------------------------------------------------------
(* F2D.run and the solution methods *)

\* sys.exit(msg): the solve ends here, the attributes stay as they are
Exit(msg) == pc' = "exit" /\ exitmsg' = msg

\* run(), down to the call self.method_func().  The calls super().FD(),
\* super().FFT(), ... go to the base class, which reads a configuration file
\* when one was named and touches none of the attributes set here.
run ==
  /\ pc = "idle"
  /\ pre' = self
  /\ UNCHANGED <<call, env>>
  /\ clock' = clock + 1
  /\ IF self.method \in Methods
     THEN /\ self' = [self EXCEPT !.solver_start_time = clock,
                                  !.method_func = self.method]
          /\ pc' = self.method
          /\ exitmsg' = exitmsg
     ELSE /\ self' = [self EXCEPT !.solver_start_time = clock]
          /\ Exit("Error: method must be \"FD\", \"FFT\", \"SAS\", or \"SAS_NG\"")

FFT ==
  /\ pc = "FFT"
  /\ Exit("The fast Fourier transform solution method is not yet implemented.")
  /\ UNCHANGED <<self, clock, pre, call, env>>

\* D = E*Te**3/(12*(1-nu**2)) for one thickness
Rigidity(E, te) ==
  (E * te * te * te * NuDen * NuDen) \div (12 * (NuDen * NuDen - NuNum * NuNum))

-----------------------------------------------------------------------------
(* SAS: superposition of analytical solutions on a grid *)

\* alpha = (D/(drho*g))**.25 and coeff = alpha**2/(2*pi*D) are irrational;
\* the model keeps the quantities they are computed from.  The kernel value
\* coeff*kei(r/alpha) at a distance r is identified by the integer r*r, and
\* a deflection is a combination of kernel values: w[d2] is the factor of
\* coeff*kei(sqrt(d2)/alpha) in it.
spatialDomainVars(s) ==
  LET D == IF IsScalar(s.Te) THEN Scalar(Rigidity(s.E, s.Te[1]))
           ELSE [r \in RowsOf(s.Te) |-> [c \in ColsOf(s.Te) |->
                   NanIf({s.Te[r][c]}, Rigidity(s.E, s.Te[r][c]))]]
  IN [s EXCEPT !.D = D,
               !.alpha = [D |-> D, drho |-> s.drho, g |-> s.g],
               !.coeff = [D |-> D, drho |-> s.drho, g |-> s.g]]

\* np.arange(0, step*n, step)
arange(step, n) == [i \in 0..(n - 1) |-> i * step]

\* the squared distances from the centre of the grid of kernel values
bigdist2(ny, nx, dx, dy) ==
  [m \in 0..(2 * ny) |-> [n \in 0..(2 * nx) |->
     ((n - nx) * dx) * ((n - nx) * dx) + ((m - ny) * dy) * ((m - ny) * dy)]]

\* the squared distances that occur in it
Dist2(big) == {big[m][n] : m \in DOMAIN big, n \in DOMAIN big[0]}

Min(a, b) == IF a < b THEN a ELSE b

\* A[r0:r1, c0:c1] for indices that are not negative
Slice(A, r0, r1, c0, c1) ==
  [a \in 0..(Min(r1, NRows(A)) - r0 - 1) |->
     [b \in 0..(Min(c1, NCols(A)) - c0 - 1) |-> A[r0 + a][c0 + b]]]

\* w += f * (the kernel values of the window win)
AddWindow(w, f, win) ==
  [a \in RowsOf(w) |-> [b \in ColsOf(w) |->
     [d2 \in DOMAIN w[a][b] |->
        w[a][b][d2] + (IF win[a][b] = d2 THEN f ELSE 0)]]]

\* the window taken one row too low: what C17 rules out
WindowShifted(big, ny, nx, j, i) ==
  Slice(big, ny - j + 1, 2 * ny - j + 1, nx - i, 2 * nx - i)

\* the window of biggrid for the load on cell [j, i]
Window(big, ny, nx, j, i) ==
  Slice(big, ny - j, 2 * ny - j, nx - i, 2 * nx - i)

\* w after the first k passes of the body of the two loops, i outside and j
\* inside
RECURSIVE Superpose(_, _, _, _, _)
Superpose(s, big, ny, nx, k) ==
  IF k = 0
  THEN [a \in 0..(ny - 1) |-> [b \in 0..(nx - 1) |->
          [d2 \in Dist2(big) |-> 0]]]
  ELSE LET w == Superpose(s, big, ny, nx, k - 1)
           i == (k - 1) \div ny
           j == (k - 1) % ny
       IN IF s.q0[j][i] = 0 THEN w
          ELSE AddWindow(w, s.q0[j][i] * s.dx * s.dy,
                         Window(big, ny, nx, j, i))

spatialDomainGridded(s) ==
  LET nx == NCols(s.q0)
      ny == NRows(s.q0)
      big == bigdist2(ny, nx, s.dx, s.dy)
  IN [s EXCEPT !.nx = nx, !.x = arange(s.dx, nx),
               !.ny = ny, !.y = arange(s.dx, nx),
               !.w = IF IsScalar(s.Te) THEN Superpose(s, big, ny, nx, ny * nx)
                     ELSE s.w]

\* SAS().  With an array of elastic thicknesses coeff and alpha are arrays
\* of the shape of Te, which is not the shape of the grid of kernel values:
\* the product raises ValueError before w is assigned.
SAS ==
  /\ pc = "SAS"
  /\ self' = spatialDomainGridded(spatialDomainVars(self))
  /\ IF IsScalar(self.Te)
     THEN pc' = "solved" /\ exitmsg' = exitmsg
     ELSE Exit("ValueError: operands could not be broadcast together")
  /\ UNCHANGED <<clock, pre, call, env>>

-----------------------------------------------------------------------------
(* SAS_NG: superposition of analytical solutions at scattered points *)

\* the distances taken along x only: what C18 rules out
PointDist2AlongX(s, i) ==
  [p \in DOMAIN s.x |-> (s.x[p] - s.x[i]) * (s.x[p] - s.x[i])]

\* the squared distances of every point from point i
PointDist2(s, i) ==
  [p \in DOMAIN s.x |->
     (s.x[p] - s.x[i]) * (s.x[p] - s.x[i])
     + (s.y[p] - s.y[i]) * (s.y[p] - s.y[i])]

\* w after the first k passes of the loop over the points
RECURSIVE SuperposePoints(_, _)
SuperposePoints(s, k) ==
  IF k = 0
  THEN [p \in DOMAIN s.q0 |->
          [d2 \in {PointDist2(s, i)[p2] : i, p2 \in DOMAIN s.x} |-> 0]]
  ELSE LET w == SuperposePoints(s, k - 1)
           r2 == PointDist2(s, k - 1)
       IN [p \in DOMAIN w |-> [d2 \in DOMAIN w[p] |->
             w[p][d2] + (IF r2[p] = d2 THEN s.q0[k - 1] ELSE 0)]]

\* whether the loop of spatialDomainNoGrid can run: x and y are on the
\* instance and coeff and alpha are scalars
PointsReady(s) == s.x # NoArray /\ s.y # NoArray /\ IsScalar(s.Te)

spatialDomainNoGrid(s) ==
  IF PointsReady(s)
  THEN [s EXCEPT !.w = SuperposePoints(s, Cardinality(DOMAIN s.x))]
  ELSE [s EXCEPT !.w = IF s.x = NoArray THEN Full(NRows(s.q0), NCols(s.q0), 0)
                       ELSE [p \in DOMAIN s.q0 |-> 0]]

\* SAS_NG().  Without the coordinates x and y on the instance len(self.x)
\* raises AttributeError; with an array of elastic thicknesses the sum of
\* the kernel values into w raises ValueError.  Both come after w has been
\* set to zeros.
SAS_NG ==
  /\ pc = "SAS_NG"
  /\ self' = spatialDomainNoGrid(spatialDomainVars(self))
  /\ IF PointsReady(self)
     THEN pc' = "solved" /\ exitmsg' = exitmsg
     ELSE IF self.x = NoArray
          THEN Exit("AttributeError: F2D instance has no attribute 'x'")
          ELSE Exit("ValueError: operands could not be broadcast together")
  /\ UNCHANGED <<clock, pre, call, env>>

-----------------------------------------------------------------------------
(* FD: the finite-difference solution *)

elasprep(s) ==
  [s EXCEPT
     !.dx4 = s.dx * s.dx * s.dx * s.dx,
     !.dy4 = s.dy * s.dy * s.dy * s.dy,
     !.dx2dy2 = (s.dx * s.dx) * (s.dy * s.dy),
     !.D = IF IsScalar(s.Te) THEN Scalar(Rigidity(s.E, s.Te[1]))
           ELSE [r \in RowsOf(s.Te) |-> [c \in ColsOf(s.Te) |->
                   NanIf({s.Te[r][c]}, Rigidity(s.E, s.Te[r][c]))]]]

\* FD(), down to the choice between building the operator and reusing the
\* attribute coeff_matrix
FD ==
  /\ pc = "FD"
  /\ self' = elasprep(self)
  /\ pc' = IF self.coeff_matrix # NoMatrix THEN "fd_solve"
           ELSE "coeff_matrix_creator"
  /\ UNCHANGED <<clock, pre, exitmsg, call, env>>

\* coeff_matrix_creator(), down to the call of
\* BC_selector_and_coeff_matrix_creator()
coeff_matrix_creator ==
  /\ pc = "coeff_matrix_creator"
  /\ self' = [self EXCEPT !.coeff_start_time = clock]
  /\ clock' = clock + 1
  /\ pc' = "BC_Rigidity"
  /\ UNCHANGED <<pre, exitmsg, call, env>>

-----------------------------------------------------------------------------
(* BC_Rigidity *)

\* the rigidity boundary condition selected for a flexural one; NoString
\* stands for the branch that ends in sys.exit("Invalid Te B.C. case")
RigidityBC(bc) ==
  IF bc = "Periodic" THEN "periodic"
  ELSE IF bc \in {"Dirichlet0", "0Moment0Shear", "0Slope0Shear"}
       THEN "0 curvature"
  ELSE IF bc = "Mirror" THEN "mirror symmetry"
  ELSE NoString

\* np.hstack and np.vstack of a border of nan around A
PadNaN(A) ==
  [r \in 0..(NRows(A) + 1) |-> [c \in 0..(NCols(A) + 1) |->
     IF r = 0 \/ r = NRows(A) + 1 \/ c = 0 \/ c = NCols(A) + 1 THEN NaN
     ELSE A[r - 1][c - 1]]]

\* A[:,j] = 2*A[:,a] - A[:,b]   and   A[i,:] = 2*A[a,:] - A[b,:]
ZeroCurvatureCol(A, j, a, b) ==
  LET nx == NCols(A) IN
  [r \in RowsOf(A) |-> [c \in ColsOf(A) |->
     IF c = Idx(j, nx)
     THEN NanIf({A[r][Idx(a, nx)], A[r][Idx(b, nx)]},
                2 * A[r][Idx(a, nx)] - A[r][Idx(b, nx)])
     ELSE A[r][c]]]
ZeroCurvatureRow(A, i, a, b) ==
  LET ny == NRows(A) IN
  [r \in RowsOf(A) |-> [c \in ColsOf(A) |->
     IF r = Idx(i, ny)
     THEN NanIf({A[Idx(a, ny)][c], A[Idx(b, ny)][c]},
                2 * A[Idx(a, ny)][c] - A[Idx(b, ny)][c])
     ELSE A[r][c]]]

\* A[:,j] = A[:,a]   and   A[i,:] = A[a,:]
\* CopyCol over the rows between the two ghost rows only, the ghost corners
\* left as they are: what C28 rules out
CopyColInterior(A, j, a) ==
  LET nx == NCols(A) IN
  [r \in RowsOf(A) |-> [c \in ColsOf(A) |->
     IF c = Idx(j, nx) /\ r \in 1..(NRows(A) - 2)
     THEN A[r][Idx(a, nx)] ELSE A[r][c]]]

CopyCol(A, j, a) ==
  LET nx == NCols(A) IN
  [r \in RowsOf(A) |-> [c \in ColsOf(A) |->
     IF c = Idx(j, nx) THEN A[r][Idx(a, nx)] ELSE A[r][c]]]
CopyRow(A, i, a) ==
  LET ny == NRows(A) IN
  [r \in RowsOf(A) |-> [c \in ColsOf(A) |->
     IF r = Idx(i, ny) THEN A[Idx(a, ny)][c] ELSE A[r][c]]]

\* the twelve conditional assignments to the border of D, in the code's order
ApplyRigidityBC(D0, W, E, N, S) ==
  LET D1  == IF W = "0 curvature" THEN ZeroCurvatureCol(D0, 0, 1, 2) ELSE D0
      D2  == IF E = "0 curvature" THEN ZeroCurvatureCol(D1, -1, -2, -3) ELSE D1
      D3  == IF N = "0 curvature" THEN ZeroCurvatureRow(D2, 0, 1, 2) ELSE D2
      D4  == IF S = "0 curvature" THEN ZeroCurvatureRow(D3, -1, -2, -3) ELSE D3
      D5  == IF W = "mirror symmetry" THEN CopyCol(D4, 0, 2) ELSE D4
      D6  == IF E = "mirror symmetry" THEN CopyCol(D5, -1, -3) ELSE D5
      D7  == IF N = "mirror symmetry" THEN CopyRow(D6, 0, 2) ELSE D6
      D8  == IF S = "mirror symmetry" THEN CopyRow(D7, -1, -3) ELSE D7
      D9  == IF W = "periodic" THEN CopyCol(D8, 0, -2) ELSE D8
      D10 == IF E = "periodic" THEN CopyCol(D9, -1, -3) ELSE D9
      D11 == IF N = "periodic" THEN CopyRow(D10, 0, -2) ELSE D10
      D12 == IF S = "periodic" THEN CopyRow(D11, -1, -3) ELSE D11
  IN D12

\* the attributes after the selection of the four rigidity boundary
\* conditions, which stops at the first edge whose label is invalid
SelectRigidityBC(s) ==
  LET W == RigidityBC(s.BC_W)
      E == RigidityBC(s.BC_E)
      N == RigidityBC(s.BC_N)
      S == RigidityBC(s.BC_S)
  IN IF W = NoString THEN s
     ELSE IF E = NoString THEN [s EXCEPT !.BC_Rigidity_W = W]
     ELSE IF N = NoString
          THEN [s EXCEPT !.BC_Rigidity_W = W, !.BC_Rigidity_E = E]
     ELSE IF S = NoString
          THEN [s EXCEPT !.BC_Rigidity_W = W, !.BC_Rigidity_E = E,
                         !.BC_Rigidity_N = N]
     ELSE [s EXCEPT !.BC_Rigidity_W = W, !.BC_Rigidity_E = E,
                    !.BC_Rigidity_N = N, !.BC_Rigidity_S = S]

ValidRigidityBCs(s) ==
  /\ RigidityBC(s.BC_W) # NoString /\ RigidityBC(s.BC_E) # NoString
  /\ RigidityBC(s.BC_N) # NoString /\ RigidityBC(s.BC_S) # NoString

\* the padding of Te and D, then the filling of the border of D
PadAndApply(s) ==
  LET t == IF IsScalar(s.Te)
           THEN [s EXCEPT !.D = Full(NRows(s.q0), NCols(s.q0), s.D[1])]
           ELSE [s EXCEPT !.Te_unpadded = s.Te,
                          !.Te = PadNaN(s.Te),
                          !.D = PadNaN(s.D)]
  IN [t EXCEPT !.D = ApplyRigidityBC(t.D, t.BC_Rigidity_W, t.BC_Rigidity_E,
                                     t.BC_Rigidity_N, t.BC_Rigidity_S)]

BC_Rigidity ==
  /\ pc = "BC_Rigidity"
  /\ IF ValidRigidityBCs(self)
     THEN /\ self' = PadAndApply(SelectRigidityBC(self))
          /\ pc' = "get_coeff_values"
          /\ exitmsg' = exitmsg
     ELSE /\ self' = SelectRigidityBC(self)
          /\ Exit("Invalid Te B.C. case")
  /\ UNCHANGED <<clock, pre, call, env>>

-----------------------------------------------------------------------------
(* get_coeff_values *)

\* a/dx4, a/dy4, a/dx2dy2 and a itself, each times dx4*dy4
OverDx4(s, a) == a * s.dy4
OverDy4(s, a) == a * s.dx4
OverDx2Dy2(s, a) == a * s.dx2dy2
Plain(s, a) == a * s.dx4 * s.dy4

\* nu*a and a*(1-nu)/2
TimesNu(a) == (NuNum * a) \div NuDen
TimesHalfOneMinusNu(a) == ((NuDen - NuNum) * a) \div (2 * NuDen)

\* the 13 coefficients of cell (r, c) for scalar Te; D is the rigidity array
\* of the shape of the load
ScalarStencil(s, r, c) ==
  LET D == s.D[r][c] IN
  [ cj2i0   |-> NanIf({D}, OverDy4(s, D)),
    cj1i_1  |-> NanIf({D}, OverDx2Dy2(s, 2 * D)),
    cj1i0   |-> NanIf({D}, OverDy4(s, -4 * D) - OverDx2Dy2(s, 4 * D)),
    cj1i1   |-> NanIf({D}, OverDx2Dy2(s, 2 * D)),
    cj0i_2  |-> NanIf({D}, OverDx4(s, D)),
    cj0i_1  |-> NanIf({D}, OverDx4(s, -4 * D) - OverDx2Dy2(s, 4 * D)),
    cj0i0   |-> NanIf({D}, OverDx4(s, 6 * D) + OverDy4(s, 6 * D)
                           + OverDx2Dy2(s, 8 * D) + Plain(s, s.drho * s.g)),
    cj0i1   |-> NanIf({D}, OverDx4(s, -4 * D) - OverDx2Dy2(s, 4 * D)),
    cj0i2   |-> NanIf({D}, OverDx4(s, D)),
    cj_1i_1 |-> NanIf({D}, OverDx2Dy2(s, 2 * D)),
    cj_1i0  |-> NanIf({D}, OverDy4(s, -4 * D) - OverDx2Dy2(s, 4 * D)),
    cj_1i1  |-> NanIf({D}, OverDx2Dy2(s, 2 * D)),
    cj_2i0  |-> NanIf({D}, OverDy4(s, D)) ]

\* the rigidity of cell (r, c) and of its eight neighbours in the padded
\* array, and the derivatives of D taken from them
Around(s, r, c) ==
  LET D == s.D IN
  [ D00 |-> D[r + 1][c + 1], D10 |-> D[r + 1][c + 2], D_10 |-> D[r + 1][c],
    D01 |-> D[r + 2][c + 1], D0_1 |-> D[r][c + 1],
    D11 |-> D[r + 2][c + 2], D_11 |-> D[r + 2][c],
    D1_1 |-> D[r][c + 2], D_1_1 |-> D[r][c] ]

Derivatives(n) ==
  [ D0  |-> n.D00,
    Dx  |-> NanIf({n.D_10, n.D10}, (-n.D_10 + n.D10) \div 2),
    Dy  |-> NanIf({n.D0_1, n.D01}, (-n.D0_1 + n.D01) \div 2),
    Dxx |-> NanIf({n.D_10, n.D00, n.D10}, n.D_10 - 2 * n.D00 + n.D10),
    Dyy |-> NanIf({n.D0_1, n.D00, n.D01}, n.D0_1 - 2 * n.D00 + n.D01),
    Dxy |-> NanIf({n.D_1_1, n.D_11, n.D1_1, n.D11},
                  (n.D_1_1 - n.D_11 - n.D1_1 + n.D11) \div 4) ]

\* the 13 coefficients of cell (r, c), van Wees and Cloetingh (1994)
vWC1994Stencil(s, r, c) ==
  LET d == Derivatives(Around(s, r, c))
      D0 == d.D0  Dx == d.Dx  Dy == d.Dy
      Dxx == d.Dxx  Dyy == d.Dyy  Dxy == d.Dxy
      X == TimesHalfOneMinusNu(Dxy)
  IN
  [ cj_2i0  |-> NanIf({D0, Dx}, OverDx4(s, D0 - Dx)),
    cj0i_2  |-> NanIf({D0, Dy}, OverDy4(s, D0 - Dy)),
    cj0i2   |-> NanIf({D0, Dy}, OverDy4(s, D0 + Dy)),
    cj2i0   |-> NanIf({D0, Dx}, OverDx4(s, D0 + Dx)),
    cj_1i_1 |-> NanIf({D0, Dx, Dy, Dxy}, OverDx2Dy2(s, 2 * D0 - Dx - Dy + X)),
    cj_1i1  |-> NanIf({D0, Dx, Dy, Dxy}, OverDx2Dy2(s, 2 * D0 - Dx + Dy - X)),
    cj1i_1  |-> NanIf({D0, Dx, Dy, Dxy}, OverDx2Dy2(s, 2 * D0 + Dx - Dy - X)),
    cj1i1   |-> NanIf({D0, Dx, Dy, Dxy}, OverDx2Dy2(s, 2 * D0 + Dx + Dy + X)),
    cj_1i0  |-> NanIf({D0, Dx, Dxx, Dyy},
                  OverDx4(s, -4 * D0 + 2 * Dx + Dxx)
                  + OverDx2Dy2(s, -4 * D0 + 2 * Dx + TimesNu(Dyy))),
    cj0i_1  |-> NanIf({D0, Dy, Dxx, Dyy},
                  OverDy4(s, -4 * D0 + 2 * Dy + Dyy)
                  + OverDx2Dy2(s, -4 * D0 + 2 * Dy + TimesNu(Dxx))),
    cj0i1   |-> NanIf({D0, Dy, Dxx, Dyy},
                  OverDy4(s, -4 * D0 - 2 * Dy + Dyy)
                  + OverDx2Dy2(s, -4 * D0 - 2 * Dy + TimesNu(Dxx))),
    cj1i0   |-> NanIf({D0, Dx, Dxx, Dyy},
                  OverDx4(s, -4 * D0 - 2 * Dx + Dxx)
                  + OverDx2Dy2(s, -4 * D0 - 2 * Dx + TimesNu(Dyy))),
    cj0i0   |-> NanIf({D0, Dxx, Dyy},
                  OverDx4(s, 6 * D0 - 2 * Dxx)
                  + OverDy4(s, 6 * D0 - 2 * Dyy)
                  + OverDx2Dy2(s, 8 * D0 - 2 * TimesNu(Dxx) - 2 * TimesNu(Dyy))
                  + Plain(s, s.drho * s.g)) ]

\* the 13 coefficients of cell (r, c), Govers et al. (2009)
G2009Stencil(s, r, c) ==
  LET n == Around(s, r, c)
      D00 == n.D00  D10 == n.D10  D_10 == n.D_10  D01 == n.D01  D0_1 == n.D0_1
  IN
  [ cj_2i0  |-> NanIf({D_10}, OverDx4(s, D_10)),
    cj_1i_1 |-> NanIf({D_10, D0_1}, OverDx2Dy2(s, D_10 + D0_1)),
    cj_1i0  |-> NanIf({D0_1, D00, D_10},
                  -2 * (OverDx2Dy2(s, D0_1 + D00) + OverDx4(s, D00 + D_10))),
    cj_1i1  |-> NanIf({D_10, D01}, OverDx2Dy2(s, D_10 + D01)),
    cj0i_2  |-> NanIf({D0_1}, OverDy4(s, D0_1)),
    cj0i_1  |-> NanIf({D0_1, D00},
                  -2 * (OverDx2Dy2(s, D0_1 + D00) + OverDy4(s, D00 + D0_1))),
    cj0i0   |-> NanIf({D10, D00, D_10, D01, D0_1},
                  OverDx4(s, D10 + 4 * D00 + D_10)
                  + OverDy4(s, D01 + 4 * D00 + D0_1)
                  + OverDx2Dy2(s, 8 * D00) + Plain(s, s.drho * s.g)),
    cj0i1   |-> NanIf({D01, D00},
                  -2 * (OverDy4(s, D01 + D00) + OverDx2Dy2(s, D00 + D01))),
    cj0i2   |-> NanIf({D0_1}, OverDy4(s, D0_1)),
    cj1i_1  |-> NanIf({D10, D0_1}, OverDx2Dy2(s, D10 + D0_1)),
    cj1i0   |-> NanIf({D10, D00},
                  -2 * (OverDx4(s, D10 + D00) + OverDx2Dy2(s, D10 + D00))),
    cj1i1   |-> NanIf({D10, D01}, OverDx2Dy2(s, D10 + D01)),
    cj2i0   |-> NanIf({D10}, OverDx4(s, D10)) ]

\* the branch of get_coeff_values taken: the stencil built, or the sys.exit
\* CoeffBranch with a last branch that takes any other type for G2009: what
\* C3 rules out
CoeffBranchAnyType(s) ==
  IF IsScalar(s.Te) THEN "scalar"
  ELSE IF s.PlateSolutionType = "vWC1994" THEN "vWC1994"
  ELSE IF s.PlateSolutionType = "LinearTeVariationsOnly" THEN "exit_check_later"
  ELSE "G2009"

CoeffBranch(s) ==
  IF IsScalar(s.Te) THEN "scalar"
  ELSE IF s.PlateSolutionType = "vWC1994" THEN "vWC1994"
  ELSE IF s.PlateSolutionType = "LinearTeVariationsOnly" THEN "exit_check_later"
  ELSE IF s.PlateSolutionType = "G2009" THEN "G2009"
  ELSE "exit_not_acceptable"

\* the 13 raw arrays, of the shape of the load for scalar Te and of the
\* shape of the interior of the padded D for array Te
RawCoeffs(s) ==
  LET b == CoeffBranch(s)
      ny == IF b = "scalar" THEN NRows(s.q0) ELSE NRows(s.D) - 2
      nx == IF b = "scalar" THEN NCols(s.q0) ELSE NCols(s.D) - 2
      cell == [r \in 0..(ny - 1) |-> [c \in 0..(nx - 1) |->
                 IF b = "scalar" THEN ScalarStencil(s, r, c)
                 ELSE IF b = "vWC1994" THEN vWC1994Stencil(s, r, c)
                 ELSE G2009Stencil(s, r, c)]]
  IN [k \in CoeffNames |->
        [r \in 0..(ny - 1) |-> [c \in 0..(nx - 1) |-> cell[r][c][k]]]]

get_coeff_values ==
  /\ pc = "get_coeff_values"
  /\ IF CoeffBranch(self) = "exit_check_later"
     THEN /\ Exit("CHECK LATER PARTS OF SOLUTION: NOT SURE IF THEY ARE RIGHT")
          /\ self' = self
     ELSE IF CoeffBranch(self) = "exit_not_acceptable"
     THEN /\ Exit("Not an acceptable plate solution type.")
          /\ self' = self
     ELSE /\ LET raw == RawCoeffs(self) IN
             self' = [self EXCEPT !.raw = raw, !.coef = raw,
                                  !.ncolsx = NCols(raw.cj0i0),
                                  !.nrowsy = NRows(raw.cj0i0)]
          /\ pc' = "BC_Flexure"
          /\ exitmsg' = exitmsg
  /\ UNCHANGED <<clock, pre, call, env>>

-----------------------------------------------------------------------------
(* BC_Flexure: the West and East edges *)

\* the 13 raw coefficients of one cell
RawAt(raw, r, c) == [k \in CoeffNames |-> raw[k][r][c]]

Zero13 == [k \in CoeffNames |-> 0]

\* The amounts added to the 13 working coefficients of a cell of column j
\* (0 or 1) for the West boundary condition bc; R holds the raw coefficients
\* of the cell.  The code's lines "+= 0" add nothing and are left out.
WestInc(bc, j, R) ==
  CASE bc = "Dirichlet0" /\ j = 0 ->
         [Zero13 EXCEPT !.cj_2i0 = Inf, !.cj_1i_1 = Inf, !.cj_1i0 = Inf,
                        !.cj_1i1 = Inf]
    [] bc = "Dirichlet0" /\ j = 1 ->
         [Zero13 EXCEPT !.cj_2i0 = Inf]
    [] bc = "0Moment0Shear" /\ j = 0 ->
         [Zero13 EXCEPT !.cj_2i0 = Inf, !.cj_1i_1 = Inf, !.cj_1i0 = Inf,
                        !.cj_1i1 = Inf,
                        !.cj0i_1 = 2 * R.cj_1i_1,
                        !.cj0i0 = 4 * R.cj_2i0 + 2 * R.cj_1i0,
                        !.cj0i1 = 2 * R.cj_1i1,
                        !.cj1i_1 = -R.cj_1i_1,
                        !.cj1i0 = -4 * R.cj_2i0 - R.cj_1i0,
                        !.cj1i1 = -R.cj_1i1,
                        !.cj2i0 = R.cj_2i0]
    [] bc = "0Moment0Shear" /\ j = 1 ->
         [Zero13 EXCEPT !.cj_2i0 = Inf,
                        !.cj_1i0 = 2 * R.cj_2i0,
                        !.cj1i0 = -2 * R.cj_2i0,
                        !.cj2i0 = R.cj_2i0]
    [] bc \in {"0Slope0Shear", "Mirror"} /\ j = 0 ->
         [Zero13 EXCEPT !.cj_2i0 = Inf, !.cj_1i_1 = Inf, !.cj_1i0 = Inf,
                        !.cj_1i1 = Inf,
                        !.cj1i_1 = R.cj_1i_1,
                        !.cj1i0 = R.cj_1i0,
                        !.cj1i1 = R.cj_1i1,
                        !.cj2i0 = R.cj_2i0]
    [] bc = "0Slope0Shear" /\ j = 1 ->
         [Zero13 EXCEPT !.cj_2i0 = Inf, !.cj2i0 = R.cj_2i0]
    [] bc = "Mirror" /\ j = 1 ->
         [Zero13 EXCEPT !.cj_2i0 = Inf, !.cj0i0 = R.cj_2i0]

\* the same for a cell of column j (-1 or -2) and the East boundary condition
EastInc(bc, j, R) ==
  CASE bc = "Dirichlet0" /\ j = -1 ->
         [Zero13 EXCEPT !.cj1i_1 = Inf, !.cj1i0 = Inf, !.cj1i1 = Inf,
                        !.cj2i0 = Inf]
    [] bc = "Dirichlet0" /\ j = -2 ->
         [Zero13 EXCEPT !.cj2i0 = Inf]
    [] bc = "0Moment0Shear" /\ j = -1 ->
         [Zero13 EXCEPT !.cj_2i0 = R.cj2i0,
                        !.cj_1i_1 = -R.cj1i_1,
                        !.cj_1i0 = -4 * R.cj2i0 - R.cj1i0,
                        !.cj_1i1 = -R.cj1i1,
                        !.cj0i_1 = 2 * R.cj1i_1,
                        !.cj0i0 = 4 * R.cj2i0 + 2 * R.cj1i0,
                        !.cj0i1 = 2 * R.cj1i1,
                        !.cj1i_1 = Inf, !.cj1i0 = Inf, !.cj1i1 = Inf,
                        !.cj2i0 = Inf]
    [] bc = "0Moment0Shear" /\ j = -2 ->
         [Zero13 EXCEPT !.cj_2i0 = R.cj2i0,
                        !.cj_1i0 = -2 * R.cj2i0,
                        !.cj1i0 = 2 * R.cj2i0,
                        !.cj2i0 = Inf]
    [] bc \in {"0Slope0Shear", "Mirror"} /\ j = -1 ->
         [Zero13 EXCEPT !.cj_2i0 = R.cj2i0,
                        !.cj_1i_1 = R.cj1i_1,
                        !.cj_1i0 = R.cj1i0,
                        !.cj_1i1 = R.cj1i1,
                        !.cj1i_1 = Inf, !.cj1i0 = Inf, !.cj1i1 = Inf,
                        !.cj2i0 = Inf]
    [] bc = "0Slope0Shear" /\ j = -2 ->
         [Zero13 EXCEPT !.cj_2i0 = R.cj2i0, !.cj2i0 = Inf]
    [] bc = "Mirror" /\ j = -2 ->
         [Zero13 EXCEPT !.cj0i0 = R.cj2i0, !.cj2i0 = Inf]

\* the working arrays after the lines of a non-periodic West (East) edge
WestLines(coef, raw, bc) ==
  [k \in CoeffNames |-> [r \in RowsOf(coef[k]) |-> [c \in ColsOf(coef[k]) |->
     IF c \in {0, 1}
     THEN Add(coef[k][r][c], WestInc(bc, c, RawAt(raw, r, c))[k])
     ELSE coef[k][r][c]]]]

EastLines(coef, raw, bc) ==
  [k \in CoeffNames |-> [r \in RowsOf(coef[k]) |-> [c \in ColsOf(coef[k]) |->
     LET nx == NCols(coef[k]) IN
     IF c \in {nx - 1, nx - 2}
     THEN Add(coef[k][r][c], EastInc(bc, c - nx, RawAt(raw, r, c))[k])
     ELSE coef[k][r][c]]]]

\* np.zeros(shape) with the columns js taken from A
ZerosWithCols(ny, nx, A, js) ==
  [r \in 0..(ny - 1) |-> [c \in 0..(nx - 1) |->
     IF c \in js THEN A[r][c] ELSE 0]]

\* A[:,j] = B[:,j]   and   A[:,j] += np.inf for every j in js
AssignCol(A, j, B) ==
  [r \in RowsOf(A) |-> [c \in ColsOf(A) |->
     IF c = j THEN B[r][c] ELSE A[r][c]]]
AddInfCols(A, js) ==
  [r \in RowsOf(A) |-> [c \in ColsOf(A) |->
     IF c \in js THEN Add(A[r][c], Inf) ELSE A[r][c]]]

\* West edge of a periodic pair: the new arrays, the shuffle of column 0,
\* the remaining off-grid values flagged
\* WestPeriodicAux with whole arrays copied instead of their first columns:
\* what C7 rules out
WestPeriodicAuxWhole(coef, per, ny, nx) ==
  [per EXCEPT
     !.cj_1i1_Periodic_right = coef.cj_1i_1,
     !.cj_2i0_Periodic_right = coef.cj_2i0]

WestPeriodicAux(coef, per, ny, nx) ==
  [per EXCEPT
     !.cj_1i1_Periodic_right = ZerosWithCols(ny, nx, coef.cj_1i_1, {0}),
     !.cj_2i0_Periodic_right = ZerosWithCols(ny, nx, coef.cj_2i0, {0, 1})]

WestPeriodic(coef) ==
  LET a == [coef EXCEPT !.cj_1i1 = AssignCol(coef.cj_1i1, 0, coef.cj_1i0)]
      b == [a EXCEPT !.cj_1i0 = AssignCol(a.cj_1i0, 0, a.cj_1i_1)]
  IN [b EXCEPT !.cj_2i0 = AddInfCols(b.cj_2i0, {0, 1}),
               !.cj_1i_1 = AddInfCols(b.cj_1i_1, {0})]

EastPeriodicAux(coef, per, ny, nx) ==
  [per EXCEPT
     !.cj1i_1_Periodic_left = ZerosWithCols(ny, nx, coef.cj1i_1, {nx - 1}),
     !.cj2i0_Periodic_left =
        ZerosWithCols(ny, nx, coef.cj2i0, {nx - 1, nx - 2})]

EastPeriodic(coef) ==
  LET nx == NCols(coef.cj0i0)
      a == [coef EXCEPT !.cj1i_1 = AssignCol(coef.cj1i_1, nx - 1, coef.cj1i0)]
      b == [a EXCEPT !.cj1i0 = AssignCol(a.cj1i0, nx - 1, a.cj1i1)]
  IN [b EXCEPT !.cj1i1 = AddInfCols(b.cj1i1, {nx - 1}),
               !.cj2i0 = AddInfCols(b.cj2i0, {nx - 1, nx - 2})]

-----------------------------------------------------------------------------
(* BC_Flexure: the North and South edges *)

\* the North edge left as Dirichlet0 whatever its label: what C19 rules out
NorthIncNone(bc, i, R) == Zero13

\* the amounts added to a cell of row i (0 or 1) for the North condition bc
NorthInc(bc, i, R) ==
  CASE bc = "Dirichlet0" -> Zero13
    [] bc = "0Moment0Shear" /\ i = 0 ->
         [Zero13 EXCEPT !.cj_1i0 = 2 * R.cj_1i_1,
                        !.cj_1i1 = -R.cj_1i_1,
                        !.cj0i0 = 4 * R.cj0i_2 + 2 * R.cj0i_1,
                        !.cj0i1 = -4 * R.cj0i_2 - R.cj0i_1,
                        !.cj0i2 = R.cj0i_2,
                        !.cj1i0 = 2 * R.cj1i_1,
                        !.cj1i1 = -R.cj1i_1]
    [] bc = "0Moment0Shear" /\ i = 1 ->
         [Zero13 EXCEPT !.cj0i_1 = 2 * R.cj0i_2,
                        !.cj0i1 = -2 * R.cj0i_2,
                        !.cj0i2 = R.cj0i_2]
    [] bc \in {"0Slope0Shear", "Mirror"} /\ i = 0 ->
         [Zero13 EXCEPT !.cj_1i1 = R.cj_1i_1,
                        !.cj0i1 = R.cj0i_1,
                        !.cj0i2 = R.cj0i_2,
                        !.cj1i1 = R.cj1i_1]
    [] bc = "0Slope0Shear" /\ i = 1 ->
         [Zero13 EXCEPT !.cj0i2 = R.cj0i_2]
    [] bc = "Mirror" /\ i = 1 ->
         [Zero13 EXCEPT !.cj0i0 = R.cj0i_2]

\* the amounts added to a cell of row i (-2 or -1) for the South condition bc
SouthInc(bc, i, R) ==
  CASE bc = "Dirichlet0" -> Zero13
    [] bc = "0Moment0Shear" /\ i = -2 ->
         [Zero13 EXCEPT !.cj0i_2 = R.cj0i2,
                        !.cj0i_1 = -2 * R.cj0i2,
                        !.cj0i1 = 2 * R.cj0i2]
    [] bc = "0Moment0Shear" /\ i = -1 ->
         [Zero13 EXCEPT !.cj_1i_1 = -R.cj1i1,
                        !.cj_1i0 = 2 * R.cj1i1,
                        !.cj0i_2 = R.cj0i2,
                        !.cj0i_1 = -4 * R.cj0i2 - R.cj0i1,
                        !.cj0i0 = 4 * R.cj0i2 + 2 * R.cj0i1,
                        !.cj1i_1 = -R.cj_1i1,
                        !.cj1i0 = 2 * R.cj_1i1]
    [] bc = "0Slope0Shear" /\ i = -2 ->
         [Zero13 EXCEPT !.cj0i_2 = R.cj0i2]
    [] bc = "Mirror" /\ i = -2 ->
         [Zero13 EXCEPT !.cj0i0 = R.cj0i2]
    [] bc \in {"0Slope0Shear", "Mirror"} /\ i = -1 ->
         [Zero13 EXCEPT !.cj_1i_1 = R.cj_1i1,
                        !.cj0i_2 = R.cj0i2,
                        !.cj0i_1 = R.cj0i1,
                        !.cj1i_1 = R.cj1i1]

\* self.cj_1i_1[0,:][self.cj_1i_1[0,:] != np.inf] = np.nan
MarkNaNRow0(A) ==
  [r \in RowsOf(A) |-> [c \in ColsOf(A) |->
     IF r = 0 /\ A[r][c] # Inf THEN NaN ELSE A[r][c]]]

\* the working arrays after the lines of a non-periodic North (South) edge
NorthLines(coef, raw, bc) ==
  LET m == [coef EXCEPT !.cj_1i_1 = MarkNaNRow0(coef.cj_1i_1)] IN
  [k \in CoeffNames |-> [r \in RowsOf(m[k]) |-> [c \in ColsOf(m[k]) |->
     IF r \in {0, 1}
     THEN Add(m[k][r][c], NorthInc(bc, r, RawAt(raw, r, c))[k])
     ELSE m[k][r][c]]]]

SouthLines(coef, raw, bc) ==
  [k \in CoeffNames |-> [r \in RowsOf(coef[k]) |-> [c \in ColsOf(coef[k]) |->
     LET ny == NRows(coef[k]) IN
     IF r \in {ny - 2, ny - 1}
     THEN Add(coef[k][r][c], SouthInc(bc, r - ny, RawAt(raw, r, c))[k])
     ELSE coef[k][r][c]]]]

-----------------------------------------------------------------------------
(* BC_Flexure: the corners *)

SlopeOrMirror(bc) == bc = "0Slope0Shear" \/ bc = "Mirror"

\* One statement of the corner section: when cond holds, v is added to
\* element [i, j] (Python indices) of the working array k.
CornerOp(cond, k, i, j, v) == [cond |-> cond, k |-> k, i |-> i, j |-> j, v |-> v]

\* the statements of the corner section, in the code's order
CornerOps(s) ==
  LET W == s.BC_W  E == s.BC_E  N == s.BC_N  S == s.BC_S
      raw == s.raw
      ny == NRows(raw.cj0i0)
      nx == NCols(raw.cj0i0)
      \* raw coefficient k at [i, j]
      R(k, i, j) == raw[k][Idx(i, ny)][Idx(j, nx)]
      mNW == (N = "Mirror" /\ W = "0Moment0Shear") \/ (W = "Mirror" /\ N = "0Moment0Shear")
      mNE == (N = "Mirror" /\ E = "0Moment0Shear") \/ (E = "Mirror" /\ N = "0Moment0Shear")
      mSW == (S = "Mirror" /\ W = "0Moment0Shear") \/ (W = "Mirror" /\ S = "0Moment0Shear")
      mSE == (S = "Mirror" /\ E = "0Moment0Shear") \/ (E = "Mirror" /\ S = "0Moment0Shear")
      sNW == (N = "0Slope0Shear" /\ W = "0Moment0Shear") \/ (W = "0Slope0Shear" /\ N = "0Moment0Shear")
      sNE == (N = "0Slope0Shear" /\ E = "0Moment0Shear") \/ (E = "0Slope0Shear" /\ N = "0Moment0Shear")
      sSW == (S = "0Slope0Shear" /\ W = "0Moment0Shear") \/ (W = "0Slope0Shear" /\ S = "0Moment0Shear")
      sSE == (S = "0Slope0Shear" /\ E = "0Moment0Shear") \/ (E = "0Slope0Shear" /\ S = "0Moment0Shear")
      pWE == W = "Periodic" /\ E = "Periodic"
      pNS == N = "Periodic" /\ S = "Periodic"
      M(bc) == bc = "0Moment0Shear"
  IN
  << \* 0Slope0Shear and/or Mirror
     CornerOp(SlopeOrMirror(N) /\ SlopeOrMirror(W), "cj1i1", 0, 0, R("cj_1i_1", 0, 0)),
     CornerOp(SlopeOrMirror(N) /\ SlopeOrMirror(E), "cj_1i1", 0, -1, R("cj1i_1", 0, -1)),
     CornerOp(SlopeOrMirror(S) /\ SlopeOrMirror(W), "cj1i_1", -1, 0, R("cj_1i1", -1, 0)),
     CornerOp(SlopeOrMirror(S) /\ SlopeOrMirror(E), "cj_1i_1", -1, -1, R("cj1i1", -1, -1)),
     \* 0Moment0Shear
     CornerOp(M(N) /\ M(W), "cj0i0", 0, 0, 2 * R("cj_1i_1", 0, 0)),
     CornerOp(M(N) /\ M(W), "cj1i1", 0, 0, -R("cj_1i_1", 0, 0)),
     CornerOp(M(N) /\ M(E), "cj0i0", 0, -1, 2 * R("cj_1i_1", 0, -1)),
     CornerOp(M(N) /\ M(E), "cj_1i1", 0, -1, -R("cj1i_1", 0, -1)),
     CornerOp(M(S) /\ M(W), "cj0i0", -1, 0, 2 * R("cj_1i_1", -1, 0)),
     CornerOp(M(S) /\ M(W), "cj1i_1", -1, 0, -R("cj_1i1", -1, 0)),
     CornerOp(M(S) /\ M(E), "cj0i0", -1, -1, 2 * R("cj_1i_1", -1, -1)),
     CornerOp(M(S) /\ M(E), "cj_1i_1", -1, -1, -R("cj1i1", -1, -1)),
     \* 0Moment0Shear and Mirror
     CornerOp(mNW, "cj1i1", 0, 0, R("cj_1i_1", 0, 0)),
     CornerOp(mNE, "cj_1i1", 0, -1, R("cj1i_1", 0, -1)),
     CornerOp(mSW, "cj1i_1", -1, 0, R("cj_1i1", -1, 0)),
     CornerOp(mSE, "cj_1i_1", -1, -1, R("cj1i1", -1, -1)),
     \* 0Moment0Shear and 0Slope0Shear
     CornerOp(sNW, "cj0i0", 0, 0, 2 * R("cj_1i_1", 0, 0)),
     CornerOp(sNW, "cj1i1", 0, 0, -R("cj_1i_1", 0, 0)),
     CornerOp(sNE, "cj0i0", 0, -1, 2 * R("cj_1i_1", 0, -1)),
     CornerOp(sNE, "cj1i1", 0, -1, -R("cj_1i_1", 0, -1)),
     CornerOp(sSW, "cj0i0", -1, 0, 2 * R("cj_1i_1", -1, 0)),
     CornerOp(sSW, "cj1i_1", -1, 0, -R("cj_1i1", -1, 0)),
     CornerOp(sSE, "cj0i0", -1, -1, 2 * R("cj_1i_1", -1, -1)),
     CornerOp(sSE, "cj_1i_1", -1, -1, -R("cj1i1", -1, -1)),
     \* Periodic West/East and others
     CornerOp(pWE /\ SlopeOrMirror(N), "cj1i1", 0, 0, R("cj_1i_1", 0, 0)),
     CornerOp(pWE /\ SlopeOrMirror(N), "cj_1i1", 0, -1, R("cj1i_1", 0, -1)),
     CornerOp(pWE /\ ~SlopeOrMirror(N) /\ M(N), "cj0i0", 0, 0, 2 * R("cj_1i_1", 0, 0)),
     CornerOp(pWE /\ ~SlopeOrMirror(N) /\ M(N), "cj1i1", 0, 0, -R("cj_1i_1", 0, 0)),
     CornerOp(pWE /\ ~SlopeOrMirror(N) /\ M(N), "cj0i0", 0, -1, 2 * R("cj_1i_1", 0, -1)),
     CornerOp(pWE /\ ~SlopeOrMirror(N) /\ M(N), "cj1i1", 0, -1, -R("cj_1i_1", 0, -1)),
     CornerOp(pWE /\ SlopeOrMirror(S), "cj1i_1", -1, 0, R("cj_1i1", -1, 0)),
     CornerOp(pWE /\ SlopeOrMirror(S), "cj_1i_1", -1, -1, R("cj1i1", -1, -1)),
     CornerOp(pWE /\ ~SlopeOrMirror(S) /\ M(S), "cj0i0", -1, 0, 2 * R("cj_1i_1", -1, 0)),
     CornerOp(pWE /\ ~SlopeOrMirror(S) /\ M(S), "cj1i_1", -1, 0, -R("cj_1i1", -1, 0)),
     CornerOp(pWE /\ ~SlopeOrMirror(S) /\ M(S), "cj0i0", -1, -1, 2 * R("cj_1i_1", -1, -1)),
     CornerOp(pWE /\ ~SlopeOrMirror(S) /\ M(S), "cj_1i_1", -1, -1, -R("cj1i1", -1, -1)),
     \* Periodic North/South and others
     CornerOp(pNS /\ SlopeOrMirror(W), "cj1i1", 0, 0, R("cj_1i_1", 0, 0)),
     CornerOp(pNS /\ SlopeOrMirror(W), "cj1i_1", -1, 0, R("cj_1i1", -1, 0)),
     CornerOp(pNS /\ ~SlopeOrMirror(W) /\ M(W), "cj0i0", 0, 0, 2 * R("cj_1i_1", 0, 0)),
     CornerOp(pNS /\ ~SlopeOrMirror(W) /\ M(W), "cj1i1", 0, 0, -R("cj_1i_1", 0, 0)),
     CornerOp(pNS /\ ~SlopeOrMirror(W) /\ M(W), "cj0i0", -1, 0, 2 * R("cj_1i_1", -1, 0)),
     CornerOp(pNS /\ ~SlopeOrMirror(W) /\ M(W), "cj1i_1", -1, 0, -R("cj_1i1", -1, 0)),
     CornerOp(pNS /\ SlopeOrMirror(E), "cj_1i1", 0, -1, R("cj1i_1", 0, -1)),
     CornerOp(pNS /\ SlopeOrMirror(E), "cj_1i_1", -1, -1, R("cj1i1", -1, -1)),
     CornerOp(pNS /\ ~SlopeOrMirror(E) /\ M(E), "cj0i0", 0, -1, 2 * R("cj_1i_1", 0, -1)),
     CornerOp(pNS /\ ~SlopeOrMirror(E) /\ M(E), "cj1i1", 0, -1, -R("cj_1i_1", 0, -1)),
     CornerOp(pNS /\ ~SlopeOrMirror(E) /\ M(E), "cj0i0", -1, -1, 2 * R("cj_1i_1", -1, -1)),
     CornerOp(pNS /\ ~SlopeOrMirror(E) /\ M(E), "cj_1i_1", -1, -1, -R("cj1i1", -1, -1)) >>

\* the working arrays after the first n statements of ops
RECURSIVE ApplyCornerOps(_, _, _)
ApplyCornerOps(coef, ops, n) ==
  IF n = 0 THEN coef
  ELSE LET prev == ApplyCornerOps(coef, ops, n - 1)
           op == ops[n]
           ny == NRows(prev.cj0i0)
           nx == NCols(prev.cj0i0)
           r == Idx(op.i, ny)
           c == Idx(op.j, nx)
       IN IF op.cond
          THEN [prev EXCEPT ![op.k][r][c] = Add(prev[op.k][r][c], op.v)]
          ELSE prev

\* Corners with the corner terms left out: what C13 rules out
CornersNone(s, coef) == coef

Corners(s, coef) ==
  LET ops == CornerOps(s) IN ApplyCornerOps(coef, ops, Len(ops))

-----------------------------------------------------------------------------
(* BC_Flexure: the whole function *)

NotPhysical == "Not physical to have one wrap-around boundary but not its pair."
InvalidBC == "Invalid boundary condition"
NonPeriodicLabels == BCLabels \ {"Periodic"}

\* Each stage takes the attributes left by the stage before it and gives the
\* attributes it leaves and the sys.exit message it ends with, NoString when
\* it runs to its end.
WestStage(s) ==
  IF s.BC_W = "Periodic"
  THEN IF s.BC_E = "Periodic"
       THEN [s |-> [s EXCEPT
                      !.per = WestPeriodicAux(s.coef, s.per,
                                              NRows(s.q0), NCols(s.q0)),
                      !.coef = WestPeriodic(s.coef)],
             exit |-> NoString]
       ELSE [s |-> s, exit |-> NotPhysical]
  ELSE IF s.BC_W \in NonPeriodicLabels
  THEN [s |-> [s EXCEPT !.coef = WestLines(s.coef, s.raw, s.BC_W)],
        exit |-> NoString]
  ELSE [s |-> s, exit |-> InvalidBC]

EastStage(s) ==
  IF s.BC_E = "Periodic"
  THEN IF s.BC_W = "Periodic"
       THEN [s |-> [s EXCEPT
                      !.per = EastPeriodicAux(s.coef, s.per,
                                              NRows(s.q0), NCols(s.q0)),
                      !.coef = EastPeriodic(s.coef)],
             exit |-> NoString]
       ELSE [s |-> s, exit |-> NotPhysical]
  ELSE IF s.BC_E \in NonPeriodicLabels
  THEN [s |-> [s EXCEPT !.coef = EastLines(s.coef, s.raw, s.BC_E)],
        exit |-> NoString]
  ELSE [s |-> s, exit |-> InvalidBC]

NorthStage(s) ==
  IF s.BC_N = "Periodic"
  THEN IF s.BC_S = "Periodic"
       THEN [s |-> s, exit |-> NoString]
       ELSE [s |-> s, exit |-> NotPhysical]
  ELSE IF s.BC_N \in NonPeriodicLabels
  THEN [s |-> [s EXCEPT !.coef = NorthLines(s.coef, s.raw, s.BC_N)],
        exit |-> NoString]
  ELSE [s |-> s, exit |-> InvalidBC]

\* SouthStage with the check of the pair left out: what C1 rules out
SouthStageUnpaired(s) ==
  IF s.BC_S = "Periodic"
  THEN [s |-> s, exit |-> NoString]
  ELSE IF s.BC_S \in NonPeriodicLabels
  THEN [s |-> [s EXCEPT !.coef = SouthLines(s.coef, s.raw, s.BC_S)],
        exit |-> NoString]
  ELSE [s |-> s, exit |-> InvalidBC]

SouthStage(s) ==
  IF s.BC_S = "Periodic"
  THEN IF s.BC_N = "Periodic"
       THEN [s |-> s, exit |-> NoString]
       ELSE [s |-> s, exit |-> NotPhysical]
  ELSE IF s.BC_S \in NonPeriodicLabels
  THEN [s |-> [s EXCEPT !.coef = SouthLines(s.coef, s.raw, s.BC_S)],
        exit |-> NoString]
  ELSE [s |-> s, exit |-> InvalidBC]

\* CornerStage writing through to the raw arrays, as if the working arrays
\* were the raw arrays and not copies of them: what C27 rules out
CornerStageInPlace(s) ==
  LET coef == Corners(s, s.coef)
  IN [s |-> [s EXCEPT !.coef = coef, !.raw = coef], exit |-> NoString]

CornerStage(s) == [s |-> [s EXCEPT !.coef = Corners(s, s.coef)], exit |-> NoString]

BCFlexure(s) ==
  LET w == WestStage(s) IN
  IF w.exit # NoString THEN w ELSE
  LET e == EastStage(w.s) IN
  IF e.exit # NoString THEN e ELSE
  LET n == NorthStage(e.s) IN
  IF n.exit # NoString THEN n ELSE
  LET so == SouthStage(n.s) IN
  IF so.exit # NoString THEN so ELSE
  CornerStage(so.s)

BC_Flexure ==
  /\ pc = "BC_Flexure"
  /\ LET res == BCFlexure(self) IN
       /\ self' = res.s
       /\ IF res.exit # NoString
          THEN Exit(res.exit)
          ELSE pc' = "build_diags" /\ exitmsg' = exitmsg
  /\ UNCHANGED <<clock, pre, call, env>>

-----------------------------------------------------------------------------
(* build_diags *)

\* the shift of each working array: <<along x (axis 1), along y (axis 0)>>
\* RollOf without the shifts along y: what C6 rules out
RollOfXOnly(k) ==
  CASE k \in {"cj_2i0", "cj_1i_1", "cj_1i1"} ->
         <<IF k = "cj_2i0" THEN -2 ELSE -1, 0>>
    [] k \in {"cj2i0", "cj1i_1", "cj1i1"} ->
         <<IF k = "cj2i0" THEN 2 ELSE 1, 0>>
    [] OTHER -> <<0, 0>>

RollOf(k) ==
  CASE k = "cj_2i0" -> <<-2, 0>>   [] k = "cj_1i0" -> <<-1, 0>>
    [] k = "cj1i0" -> <<1, 0>>     [] k = "cj2i0" -> <<2, 0>>
    [] k = "cj0i_2" -> <<0, -2>>   [] k = "cj0i_1" -> <<0, -1>>
    [] k = "cj0i1" -> <<0, 1>>     [] k = "cj0i2" -> <<0, 2>>
    [] k = "cj_1i_1" -> <<-1, -1>> [] k = "cj_1i1" -> <<-1, 1>>
    [] k = "cj1i_1" -> <<1, -1>>   [] k = "cj1i1" -> <<1, 1>>
    [] k = "cj0i0" -> <<0, 0>>

\* np.roll along x, then along y
Rolled(A, sx, sy) == Roll0(Roll1(A, sx), sy)

\* array[np.isinf(array)] = 0
\* ZeroInf with the infinities left in place: what C8 rules out
ZeroInfKept(A) == A

ZeroInf(A) ==
  [r \in RowsOf(A) |-> [c \in ColsOf(A) |->
     IF IsInf(A[r][c]) THEN 0 ELSE A[r][c]]]

\* the 13 working arrays rolled, then swept of their infinities
RollAndSweep(coef) ==
  [k \in CoeffNames |-> ZeroInf(Rolled(coef[k], RollOf(k)[1], RollOf(k)[2]))]

\* RollPeriodic with the rolls left out: what C11 rules out
RollPeriodicNone(per) == per

\* the arrays of the extra West/East diagonals rolled
RollPeriodic(per) ==
  [ cj_2i0_Periodic_right |-> Rolled(per.cj_2i0_Periodic_right, -2, 0),
    cj_1i1_Periodic_right |-> Rolled(per.cj_1i1_Periodic_right, -1, 1),
    cj1i_1_Periodic_left  |-> Rolled(per.cj1i_1_Periodic_left, 1, -1),
    cj2i0_Periodic_left   |-> Rolled(per.cj2i0_Periodic_left, 2, 0) ]

\* np.reshape(A, -1, order='C')
Vec(A) == [k \in 0..(NRows(A) * NCols(A) - 1) |-> Flat(A, k)]

Up2(c) == <<Vec(c.cj0i2)>>
Up1(c) == <<Vec(c.cj_1i1), Vec(c.cj0i1), Vec(c.cj1i1)>>
Mid(c) == <<Vec(c.cj_2i0), Vec(c.cj_1i0), Vec(c.cj0i0), Vec(c.cj1i0), Vec(c.cj2i0)>>
Dn1(c) == <<Vec(c.cj_1i_1), Vec(c.cj0i_1), Vec(c.cj1i_1)>>
Dn2(c) == <<Vec(c.cj0i_2)>>

\* the branch of build_diags taken
DiagsBranch(s) ==
  LET pNS == s.BC_N = "Periodic" /\ s.BC_S = "Periodic"
      pWE == s.BC_W = "Periodic" /\ s.BC_E = "Periodic"
  IN IF pNS /\ pWE THEN "all"
     ELSE IF pWE THEN "WE"
     ELSE IF pNS THEN "NS"
     ELSE "none"

\* self.diags, for the rolled arrays c and p, stacked in the code's order
DiagsOf(b, c, p) ==
  LET L1 == <<Vec(p.cj1i_1_Periodic_left)>>
      L2 == <<Vec(p.cj2i0_Periodic_left)>>
      R1 == <<Vec(p.cj_1i1_Periodic_right)>>
      R2 == <<Vec(p.cj_2i0_Periodic_right)>>
  IN CASE b = "all" ->
            L1 \o Up1(c) \o R1 \o Up2(c) \o Dn2(c) \o L1 \o Dn1(c) \o L2
            \o Mid(c) \o R2 \o Up1(c) \o R1 \o Up2(c) \o Dn2(c) \o L1
            \o Dn1(c) \o R1
       [] b = "WE" ->
            Dn2(c) \o L1 \o Dn1(c) \o L2 \o Mid(c) \o R2 \o Up1(c) \o R1
            \o Up2(c)
       [] b = "NS" ->
            Up1(c) \o Up2(c) \o Dn2(c) \o Dn1(c) \o Mid(c) \o Up1(c)
            \o Up2(c) \o Dn2(c) \o Dn1(c)
       [] b = "none" ->
            Dn2(c) \o Dn1(c) \o Mid(c) \o Up1(c) \o Up2(c)

\* self.offsets (the list given to spdiags)
OffsetsOf(b, ny, nx) ==
  CASE b = "all" ->
         << -ny*nx + 1,
            nx - ny*nx - 1, nx - ny*nx, nx - ny*nx + 1,
            2*nx - ny*nx - 1,
            2*nx - ny*nx,
            -2*nx,
            -2*nx + 1,
            -nx - 1, -nx, -nx + 1,
            -nx + 2,
            -2, -1, 0, 1, 2,
            nx - 2,
            nx - 1, nx, nx + 1,
            2*nx - 1,
            2*nx,
            ny*nx - 2*nx,
            ny*nx - 2*nx + 1,
            ny*nx - nx - 1, ny*nx - nx, ny*nx - nx + 1,
            ny*nx - 1 >>
    [] b = "WE" ->
         << -2*nx,
            -2*nx + 1,
            -nx - 1, -nx, -nx + 1,
            -nx + 2,
            -2, -1, 0, 1, 2,
            nx - 2,
            nx - 1, nx, nx + 1,
            2*nx - 1,
            2*nx >>
    [] b = "NS" ->
         << nx - ny*nx - 1, nx - ny*nx, nx - ny*nx + 1, 2*nx - ny*nx,
            -2*nx, -nx - 1, -nx, -nx + 1, -2, -1, 0, 1, 2,
            nx - 1, nx, nx + 1, 2*nx,
            ny*nx - 2*nx, ny*nx - nx - 1, ny*nx - nx, ny*nx - nx + 1 >>
    [] b = "none" ->
         << -2*nx, -nx - 1, -nx, -nx + 1, -2, -1, 0, 1, 2,
            nx - 1, nx, nx + 1, 2*nx >>

\* the attributes after build_diags
BuildDiags(s) ==
  LET b == DiagsBranch(s)
      c == RollAndSweep(s.coef)
      p == IF b \in {"all", "WE"} THEN RollPeriodic(s.per) ELSE s.per
      ny == s.nrowsy
      nx == s.ncolsx
      d == DiagsOf(b, c, p)
      o == OffsetsOf(b, ny, nx)
  IN [s EXCEPT !.coef = c, !.per = p, !.ny = ny, !.nx = nx,
               !.diags = d,
               !.offsets = IF b \in {"all", "WE"} THEN o ELSE s.offsets,
               !.coeff_matrix = [diags |-> d, offsets |-> o, n |-> ny * nx]]

\* build_diags(), then the end of coeff_matrix_creator()
build_diags ==
  /\ pc = "build_diags"
  /\ self' = [BuildDiags(self) EXCEPT
                !.coeff_creation_time = clock - self.coeff_start_time]
  /\ clock' = clock + 1
  /\ pc' = "fd_solve"
  /\ UNCHANGED <<pre, exitmsg, call, env>>

-----------------------------------------------------------------------------
(* fd_solve and the end of run *)

\* A system is singular in the model when its matrix is a bare main diagonal
\* with a zero on it.  The operators build_diags assembles are solved for
\* zero loads only and are taken as regular.
OnlyMainDiagonal(M) == M.offsets = <<0>>
Singular(M) ==
  OnlyMainDiagonal(M) /\ \E k \in 0..(M.n - 1) : M.diags[1][k] = 0

\* The solution of M w = q0 on the grid of q0, for a regular system: the
\* quotient by the diagonal for a bare main diagonal, the zero field for a
\* zero load.
Solution(M, q0) ==
  [r \in RowsOf(q0) |-> [c \in ColsOf(q0) |->
     IF OnlyMainDiagonal(M) /\ q0[r][c] # 0
     THEN q0[r][c] \div M.diags[1][r * NCols(q0) + c]
     ELSE 0]]

ZeroLoad(q0) == \A r \in RowsOf(q0) : \A c \in ColsOf(q0) : q0[r][c] = 0

\* scipy.sparse.linalg.spsolve: a singular system is answered with a warning
\* and a vector of nan, not with an exception
spsolve(M, q0) ==
  IF Singular(M) THEN [r \in RowsOf(q0) |-> [c \in ColsOf(q0) |-> NaN]]
  ELSE Solution(M, q0)

\* scipy.sparse.linalg.lgmres: the pairs (x, info) it can return.  A zero
\* load is answered at once by the zero start vector with info = 0.
\* Otherwise whether the iteration reaches the tolerance within its
\* iteration limit is left open: it returns the solution with info = 0, or
\* the iterate it stopped at (here the start vector) with info > 0.
lgmres(M, q0) ==
  LET x0 == [r \in RowsOf(q0) |-> [c \in ColsOf(q0) |-> 0]] IN
  IF ZeroLoad(q0) THEN {[x |-> x0, info |-> 0]}
  ELSE {[x |-> x0, info |-> 1]}
       \cup (IF Singular(M) THEN {} ELSE {[x |-> Solution(M, q0), info |-> 0]})

Negated(A) ==
  [r \in RowsOf(A) |-> [c \in ColsOf(A) |->
     IF IsNaN(A[r][c]) THEN NaN ELSE -A[r][c]]]

\* fd_solve().  The call of lgmres names no tolerance, and of the pair it
\* returns only the vector is kept.
\* Both solvers raise a ValueError for a matrix whose size is not the length
\* of the load vector.
DimensionMismatch == "ValueError: matrix - rhs dimension mismatch"

fd_solve ==
  /\ pc = "fd_solve"
  /\ LET iterative == self.solver \in {"iterative", "Iterative"}
         M == self.coeff_matrix
         outs == IF iterative THEN lgmres(M, self.q0)
                 ELSE {[x |-> spsolve(M, self.q0), info |-> NoNumber]}
     IN IF M.n # NRows(self.q0) * NCols(self.q0)
        THEN /\ Exit(DimensionMismatch)
             /\ UNCHANGED <<self, call>>
        ELSE \E out \in outs :
               /\ self' = [self EXCEPT !.w = Negated(out.x),
                                       !.w_padded = Negated(out.x)]
               /\ call' = [name |-> IF iterative THEN "lgmres" ELSE "spsolve",
                           tol |-> NoNumber, info |-> out.info,
                           singular |-> Singular(M)]
               /\ pc' = "solved" /\ exitmsg' = exitmsg
  /\ UNCHANGED <<clock, pre, env>>

\* the end of run(), after self.method_func() has returned
finish ==
  /\ pc = "solved"
  /\ self' = [self EXCEPT !.time_to_solve = clock - self.solver_start_time]
  /\ clock' = clock + 1
  /\ pc' = "done"
  /\ UNCHANGED <<pre, exitmsg, call, env>>

\* The caller between two solves on one instance, the first ended or stopped
\* by the sys.exit of an unpaired Periodic edge (a SystemExit the caller can
\* catch): set_value() of a new elastic thickness or of a new label for the
\* West edge, then run() again.
set_value ==
  /\ \/ pc = "done"
     \/ pc = "exit" /\ exitmsg = NotPhysical
  /\ clock < MaxClock
  /\ \/ self' = [self EXCEPT !.Te = Scalar(1)]
     \/ self' = [self EXCEPT !.BC_W = "Mirror"]
  /\ self' # self
  /\ pc' = "idle"
  /\ exitmsg' = NoString
  /\ UNCHANGED <<clock, pre, call, env>>

-----------------------------------------------------------------------------
(* The instances the solve starts from *)

AnyLabel == BCLabels \cup {Unrecognized}

\* <<ny, nx>>: the square grid and the two oblong ones
Shapes == {<<5, 5>>, <<5, MaxN>>, <<MaxN, 5>>}

\* elastic thickness: a scalar, a uniform array, the non-uniform fields
TeInputs(ny, nx) ==
  {Scalar(MaxTe), Full(ny, nx, MaxTe)}
  \cup {TeField(p, ny, nx) : p \in 1..MaxPattern}

\* no GRASS region: the instance is not set up by r.flexure
NoRegion ==
  [proj |-> NoString, ewres |-> NoNumber, nsres |-> NoNumber,
   n |-> NoNumber, s |-> NoNumber]

Config(m, W, E, N, S, pst, Te, ny, nx, dx, dy, sup) ==
  [method |-> m, BC_W |-> W, BC_E |-> E, BC_N |-> N, BC_S |-> S,
   PlateSolutionType |-> pst, Te |-> Te, ny |-> ny, nx |-> nx,
   dx |-> dx, dy |-> dy, supplied |-> sup, singular |-> FALSE,
   q0 |-> Full(ny, nx, 0), x |-> NoArray, y |-> NoArray,
   solver |-> "direct", tolerance |-> NoNumber,
   region |-> NoRegion, l |-> FALSE, exit |-> NoString]

\* every method, recognised or not, with and without a supplied operator
MethodConfigs ==
  { Config(m, "Dirichlet0", "Dirichlet0", "Dirichlet0", "Dirichlet0",
           "vWC1994", Te, 5, 5, 1, 1, sup) :
      m \in Methods \cup {Unrecognized},
      Te \in {Scalar(MaxTe), TeField(1, 5, 5)},
      sup \in BOOLEAN }

\* FD with every combination of edge labels, recognised or not, and FD over
\* a non-uniform elastic thickness with Periodic on the West edge and not on
\* the East one
LabelConfigs ==
  { Config("FD", W, E, N, S, "vWC1994", Scalar(MaxTe), 5, 5, 1, 1, FALSE) :
      W \in AnyLabel, E \in AnyLabel, N \in AnyLabel, S \in AnyLabel }
  \cup
  { Config("FD", "Periodic", E, "Dirichlet0", S, "vWC1994", TeField(1, 5, 5),
           5, 5, 1, 1, FALSE) :
      E \in {"Dirichlet0", "0Moment0Shear"}, S \in {"Dirichlet0", "Periodic"} }

\* FD with a supplied operator and any labels on the West and East edges
SuppliedConfigs ==
  { Config("FD", W, E, "Dirichlet0", "Dirichlet0", pst, Scalar(MaxTe),
           5, 5, 1, 1, TRUE) :
      W \in AnyLabel, E \in AnyLabel,
      pst \in {"vWC1994", Unrecognized} }

\* FD with every plate solution type, recognised or not, every elastic
\* thickness input, grid and spacing, and the four pure edge settings
PureEdges ==
  { <<"Dirichlet0", "Dirichlet0", "Dirichlet0", "Dirichlet0">>,
    <<"Periodic", "Periodic", "Dirichlet0", "Dirichlet0">>,
    <<"Dirichlet0", "Dirichlet0", "Periodic", "Periodic">>,
    <<"Periodic", "Periodic", "Periodic", "Periodic">> }

\* <<dx, dy>>: equal spacings and the two unequal ones
Spacings == {<<1, 1>>, <<1, MaxDx>>, <<MaxDx, 1>>}

StencilConfigs ==
  UNION { { Config("FD", b[1], b[2], b[3], b[4], pst, Te, sh[1], sh[2],
                   d[1], d[2], FALSE) :
              Te \in TeInputs(sh[1], sh[2]),
              b \in PureEdges,
              pst \in PlateSolutionTypes \cup {Unrecognized},
              d \in Spacings } :
          sh \in Shapes }

\* FD with every valid combination of edge labels over a non-uniform
\* elastic thickness on an oblong grid with dx # dy, for vWC1994 on the wide
\* grid and G2009 on the tall one, and on the smallest grid the padded
\* rigidity can be filled on, 3 x 3
ValidEdges ==
  { b \in BCLabels \X BCLabels \X BCLabels \X BCLabels :
      /\ (b[1] = "Periodic") = (b[2] = "Periodic")
      /\ (b[3] = "Periodic") = (b[4] = "Periodic") }

EdgeConfigs ==
  { Config("FD", b[1], b[2], b[3], b[4], "vWC1994", TeField(1, 5, MaxN),
           5, MaxN, 1, MaxDx, FALSE) : b \in ValidEdges }
  \cup
  { Config("FD", b[1], b[2], b[3], b[4], "G2009", TeField(MaxPattern, MaxN, 5),
           MaxN, 5, MaxDx, 1, FALSE) : b \in ValidEdges }
  \cup
  { Config("FD", b[1], b[2], b[3], b[4], "vWC1994", TeField(1, 3, 3),
           3, 3, 1, 1, FALSE) : b \in ValidEdges }

\* a unit load on the centre cell
PointLoad(ny, nx) ==
  [r \in 0..(ny - 1) |-> [c \in 0..(nx - 1) |->
     IF r = ny \div 2 /\ c = nx \div 2 THEN 1 ELSE 0]]

\* convergence tolerances 1E-k: r.flexure's default 1E-3, and 1E-10
Tolerances == {3, 10}

SolverNames == {"direct", "Direct", "iterative", "Iterative", Unrecognized}

\* FD with every solver name and tolerance: the operator built for a zero
\* load, and a supplied diagonal operator, regular or singular, for a zero
\* load and a point load
SolverConfigs ==
  { [Config("FD", "Dirichlet0", "Dirichlet0", "Dirichlet0", "Dirichlet0",
            "vWC1994", Scalar(MaxTe), 5, 5, 1, 1, o[1])
       EXCEPT !.singular = o[2], !.q0 = q0, !.solver = sv, !.tolerance = tol] :
      o \in {<<TRUE, FALSE>>, <<TRUE, TRUE>>},
      q0 \in {Full(5, 5, 0), PointLoad(5, 5)},
      sv \in SolverNames, tol \in Tolerances }
  \cup
  { [Config("FD", "Dirichlet0", "Dirichlet0", "Dirichlet0", "Dirichlet0",
            "vWC1994", Scalar(MaxTe), 5, 5, 1, 1, FALSE)
       EXCEPT !.solver = sv, !.tolerance = tol] :
      sv \in SolverNames, tol \in Tolerances }

\* a field of loads with empty cells, one for each p >= 1
LoadField(p, ny, nx) ==
  [r \in 0..(ny - 1) |-> [c \in 0..(nx - 1) |->
     (p * r + (p + 1) * c + r * c + 1) % (MaxLoad + 1)]]

\* <<ny, nx>> for the analytical solutions
LoadShapes == {<<2, MaxCells>>, <<MaxCells, 2>>, <<MaxCells, MaxCells>>}

\* SAS with a scalar elastic thickness, every spacing, and a zero load, a
\* point load, a uniform load and a field of loads
SASConfigs ==
  UNION { { [Config("SAS", "Dirichlet0", "Dirichlet0", "Dirichlet0",
                    "Dirichlet0", "vWC1994", Scalar(te), sh[1], sh[2],
                    d[1], d[2], FALSE) EXCEPT !.q0 = q0] :
              te \in {1, MaxTe}, d \in Spacings,
              q0 \in {Full(sh[1], sh[2], 0), PointLoad(sh[1], sh[2]),
                      Full(sh[1], sh[2], MaxLoad)}
                     \cup {LoadField(p, sh[1], sh[2]) : p \in 1..MaxPattern} } :
          sh \in LoadShapes }

\* n scattered points, some of them at one place, and their loads, one
\* setting for each p >= 1
PointsX(p, n) == [k \in 0..(n - 1) |-> (p * k * k + k) % MaxCells]
PointsY(p, n) == [k \in 0..(n - 1) |-> (p * k) % 2]
PointLoads(p, n) == [k \in 0..(n - 1) |-> (k + p) % (MaxLoad + 1)]

\* SAS_NG with a scalar elastic thickness and 1 to MaxCells + 1 points
PointConfigs ==
  UNION { { [Config("SAS_NG", "Dirichlet0", "Dirichlet0", "Dirichlet0",
                    "Dirichlet0", "vWC1994", Scalar(te), 1, n, 1, 1, FALSE)
               EXCEPT !.q0 = q0, !.x = PointsX(p, n), !.y = PointsY(p, n)] :
              te \in {1, MaxTe}, p \in 1..MaxPattern,
              q0 \in {PointLoads(p2, n) : p2 \in 0..MaxPattern}
                     \cup {[k \in 0..(n - 1) |-> 0]} } :
          n \in 1..(MaxCells + 1) }

\* FD on a square grid with equal spacings, a uniform elastic thickness and
\* one label on all four edges
SquareConfigs ==
  UNION { { Config("FD", bc, bc, bc, bc, pst, Te, n, n, d, d, FALSE) :
              bc \in BCLabels, pst \in PlateSolutionTypes,
              Te \in {Scalar(MaxTe), Full(n, n, MaxTe)}, d \in 1..MaxDx } :
          n \in {5, MaxN} }

\* r.flexure: the answer of a boundary-condition option that is left out
DefaultBC == "NoOutsideLoads"

\* r.flexure: the options that have a default, all left out
DefaultOptions ==
  [solver |-> "direct", tolerance |-> 3,
   northbc |-> DefaultBC, southbc |-> DefaultBC,
   westbc |-> DefaultBC, eastbc |-> DefaultBC]

\* The length of one degree of latitude, 111195 m in r.flexure, is
\* PerDegree units of length of the model.
PerDegree == 2

\* (3.14159/180.) * 6371000. * np.cos(np.deg2rad(NSmid)), which is 111195 m
\* times the cosine, for the mid-latitudes 0 (cosine 1) and 60 (cosine 1/2)
dx_at_mid_latitude(NSmid) ==
  IF NSmid = 0 THEN PerDegree ELSE PerDegree \div 2

\* r.flexure main(), the grid spacing from the GRASS region: the values set
\* as GridSpacing_x and GridSpacing_y, or the message main() exits with
GridSpacing(region, l) ==
  IF region.proj = "3"
  THEN IF l
       THEN [x |-> region.ewres * PerDegree,
             y |-> region.nsres
                   * dx_at_mid_latitude((region.n + region.s) \div 2),
             exit |-> NoString]
       ELSE [x |-> NoNumber, y |-> NoNumber,
             exit |-> "Need projected coordinates, or the '-l' flag to approximate."]
  ELSE [x |-> region.ewres, y |-> region.nsres, exit |-> NoString]

\* a projected region of 5 by 5 cells of unit size
UnitRegion ==
  [proj |-> "1", ewres |-> 1, nsres |-> 1, n |-> 5, s |-> 0]

\* r.flexure main(): the inputs it sets on the F2D instance for the options
\* opt, the flag l, the GRASS region, the method, the elastic thickness te
\* and the loads q0
main(opt, l, region, method, te, q0) ==
  LET d == GridSpacing(region, l) IN
  [Config(method, opt.westbc, opt.eastbc, opt.northbc, opt.southbc,
          IF method = "FD" THEN "vWC1994" ELSE NoString, te,
          NRows(q0), NCols(q0), d.x, d.y, FALSE)
     EXCEPT !.solver = opt.solver, !.tolerance = opt.tolerance, !.q0 = q0,
            !.region = region, !.l = l, !.exit = d.exit]

\* r.flexure with any of the four boundary options given or left out
WrapperConfigs ==
  { main([DefaultOptions EXCEPT !.westbc = b[1], !.eastbc = b[2],
                                !.northbc = b[3], !.southbc = b[4]],
         FALSE, UnitRegion, "FD", te, Full(5, 5, 0)) :
      b \in {DefaultBC, "Mirror"} \X {DefaultBC, "Mirror"}
            \X {DefaultBC, "0Slope0Shear"} \X {DefaultBC, "0Slope0Shear"},
      te \in {Scalar(MaxTe), TeField(1, 5, 5)} }
  \cup { main(DefaultOptions, FALSE, UnitRegion, "SAS", Scalar(MaxTe),
              PointLoad(5, 5)) }

\* latitude/longitude regions around the mid-latitudes 0 and 60, with
\* resolutions of 1 to MaxDx degrees
LatLonRegions ==
  { [proj |-> "3", ewres |-> ew, nsres |-> ns, n |-> m + 10, s |-> m - 10] :
      ew \in 1..MaxDx, ns \in 1..MaxDx, m \in {0, 60} }

\* r.flexure in a latitude/longitude region with and without the flag l:
\* SAS for every region, FD with Mirror edges for the regions of one degree
LatLonConfigs ==
  { main(DefaultOptions, l, region, "SAS", Scalar(te),
         LoadField(1, 2, MaxCells)) :
      l \in BOOLEAN, region \in LatLonRegions, te \in {1, MaxTe} }
  \cup
  { main([DefaultOptions EXCEPT !.westbc = "Mirror", !.eastbc = "Mirror",
                                !.northbc = "Mirror", !.southbc = "Mirror"],
         l, region, "FD", Scalar(MaxTe), Full(5, 5, 0)) :
      l \in BOOLEAN,
      region \in {r \in LatLonRegions : r.ewres = 1 /\ r.nsres = 1} }

Configs ==
  WrapperConfigs \cup LatLonConfigs \cup SASConfigs \cup PointConfigs \cup SquareConfigs \cup MethodConfigs \cup LabelConfigs \cup SuppliedConfigs \cup StencilConfigs
  \cup EdgeConfigs \cup SolverConfigs

\* The instance set up from one of the inputs.  When main() has exited over
\* the region, run() is never called.
InitFrom(cfgs) ==
  /\ \E cfg \in cfgs :
       /\ self = Instance(cfg)
       /\ env = [region |-> cfg.region, l |-> cfg.l]
       /\ pc = IF cfg.exit = NoString THEN "idle" ELSE "exit"
       /\ exitmsg = cfg.exit
  /\ clock = 0
  /\ pre = self
  /\ call = NoCall

Init == InitFrom(Configs)

Next ==
  \/ run
  \/ FFT
  \/ SAS
  \/ SAS_NG
  \/ FD
  \/ coeff_matrix_creator
  \/ BC_Rigidity
  \/ get_coeff_values
  \/ BC_Flexure
  \/ build_diags
  \/ fd_solve
  \/ finish
  \/ set_value

Spec == Init /\ [][Next]_vars

-----------------------------------------------------------------------------
(* Properties: error handling *)

\* pre is the instance as run() found it
IsFD == pre.method = "FD"
NoOperatorYet == pre.coeff_matrix = NoMatrix

\* the elastic thickness the run starts from holds numbers only, none of
\* the nan a padding puts around an array
FiniteStart ==
  IsScalar(pre.Te) \/ \A r \in RowsOf(pre.Te), c \in ColsOf(pre.Te) :
                        pre.Te[r][c] # NaN

\* the four labels are recognised ones and some edge is Periodic without
\* the edge opposite to it
UnpairedPeriodic(s) ==
  /\ {s.BC_W, s.BC_E, s.BC_N, s.BC_S} \subseteq BCLabels
  /\ \/ (s.BC_W = "Periodic") # (s.BC_E = "Periodic")
     \/ (s.BC_N = "Periodic") # (s.BC_S = "Periodic")

\* positions of run() at or after the solve of the linear system
Solving == pc \in {"fd_solve", "solved", "done"}

C2_FFTNoStateMutated ==
  (pre.method = "FFT" /\ pc = "exit") =>
    /\ exitmsg = "The fast Fourier transform solution method is not yet implemented."
    /\ self = pre

UnrecognizedLabel(s) ==
  \/ s.BC_W \notin BCLabels \/ s.BC_E \notin BCLabels
  \/ s.BC_N \notin BCLabels \/ s.BC_S \notin BCLabels

UnrecognizedPlateType(s) ==
  IsArray(s.Te) /\ s.PlateSolutionType \notin PlateSolutionTypes

\* C3 as stated: an unrecognized method, an unrecognized edge label in an FD
\* solve, or an unrecognized plate solution type with array Te, ends the
\* solve before any operator or deflection is made.
C3_UnrecognizedFatal ==
  (\/ pre.method \notin Methods
   \/ IsFD /\ UnrecognizedLabel(pre)
   \/ IsFD /\ UnrecognizedPlateType(pre)) =>
    /\ ~Solving
    /\ self.coeff_matrix = pre.coeff_matrix
    /\ self.w = NoArray

\* C3, amended: an unrecognized method always ends run() at once; in an FD
\* solve that starts without an operator on the instance, an unrecognized
\* edge label or, with array Te, an unrecognized plate solution type, ends
\* the solve before build_diags, with coeff_matrix and w absent.
C3_UnrecognizedFatalWithoutOperator ==
  /\ pre.method \notin Methods =>
       /\ pc \in {"idle", "exit"}
       /\ self.coeff_matrix = pre.coeff_matrix
       /\ self.w = NoArray
  /\ (IsFD /\ NoOperatorYet
      /\ (UnrecognizedLabel(pre) \/ UnrecognizedPlateType(pre))) =>
       /\ ~Solving /\ pc # "build_diags"
       /\ self.coeff_matrix = NoMatrix
       /\ self.w = NoArray

\* the solve has ended at the plate solution type
C3_Witness ==
  /\ pc = "exit" /\ exitmsg = "Not an acceptable plate solution type."
  /\ IsFD /\ NoOperatorYet /\ UnrecognizedPlateType(pre)
  /\ self.coeff_matrix = NoMatrix /\ self.w = NoArray

\* C4 as stated: with array Te, each of the three plate solution types lets
\* get_coeff_values run to its end and leave the 13 raw and working arrays;
\* only an unrecognized type ends it with an error.
C4_ThreePlateTypesAccepted ==
  (IsFD /\ NoOperatorYet /\ IsArray(pre.Te) /\ ValidRigidityBCs(pre)
   /\ pc \in {"BC_Flexure", "exit"}) =>
    IF pre.PlateSolutionType \in PlateSolutionTypes
    THEN /\ pc = "exit" => exitmsg \in {NotPhysical, InvalidBC}
         /\ self.raw # NoCoeffs /\ self.coef # NoCoeffs
    ELSE pc = "exit" /\ self.raw = NoCoeffs

-----------------------------------------------------------------------------
(* Properties: the stencil and the operator *)

\* the stencil offset <<dx, dy>> that a coefficient is named after
StencilOffset(k) ==
  CASE k = "cj_2i0" -> <<-2, 0>>   [] k = "cj_1i_1" -> <<-1, -1>>
    [] k = "cj_1i0" -> <<-1, 0>>   [] k = "cj_1i1" -> <<-1, 1>>
    [] k = "cj0i_2" -> <<0, -2>>   [] k = "cj0i_1" -> <<0, -1>>
    [] k = "cj0i0" -> <<0, 0>>     [] k = "cj0i1" -> <<0, 1>>
    [] k = "cj0i2" -> <<0, 2>>     [] k = "cj1i_1" -> <<1, -1>>
    [] k = "cj1i0" -> <<1, 0>>     [] k = "cj1i1" -> <<1, 1>>
    [] k = "cj2i0" -> <<2, 0>>

\* the operator has been assembled by this run
Assembled == IsFD /\ NoOperatorYet /\ Solving

GridRows == 0..(self.ny - 1)
GridCols == 0..(self.nx - 1)
Cell(r, c) == r * self.nx + c
A(r, c, r2, c2) == MatEntry(self.coeff_matrix, Cell(r, c), Cell(r2, c2))

AllEdges(s, bc) ==
  s.BC_W = bc /\ s.BC_E = bc /\ s.BC_N = bc /\ s.BC_S = bc

\* the padded rigidity is one constant, ghost cells included
UniformD(s) ==
  /\ IsArray(s.D)
  /\ \A r \in RowsOf(s.D), c \in ColsOf(s.D) : s.D[r][c] = s.D[0][0]

\* C5 as stated: for array Te of constant rigidity, each of the 13 raw
\* vWC1994 coefficients at every cell equals the scalar closed form for the
\* same offset, whatever dx and dy.
C5_vWC1994ReducesToScalar ==
  (IsFD /\ NoOperatorYet /\ IsArray(pre.Te)
   /\ pre.PlateSolutionType = "vWC1994"
   /\ self.raw # NoCoeffs /\ UniformD(self)) =>
    \A k \in CoeffNames :
      \A r \in RowsOf(self.raw[k]), c \in ColsOf(self.raw[k]) :
        self.raw[k][r][c] =
          ScalarStencil([self EXCEPT !.D = Full(NRows(self.q0),
                                                NCols(self.q0),
                                                self.D[0][0])], r, c)[k]

\* the coefficient of cell (r, c) that couples it to cell (r2, c2), when the
\* neighbour columns are taken modulo the grid width if wrapx and the
\* neighbour rows modulo the grid height if wrapy; 0 if there is none
Coupling(r, c, r2, c2, wrapx, wrapy) ==
  LET ks == { k \in CoeffNames :
                LET tc == c + StencilOffset(k)[1]
                    tr == r + StencilOffset(k)[2]
                IN /\ c2 = (IF wrapx THEN tc % self.nx ELSE tc)
                   /\ r2 = (IF wrapy THEN tr % self.ny ELSE tr) }
  IN IF ks = {} THEN 0 ELSE self.raw[CHOOSE k \in ks : TRUE][r][c]

\* C6: with Dirichlet0 on the four edges, the entry of the operator in the
\* row of cell (r, c) and the column of cell (r2, c2) is the raw coefficient
\* of (r, c) for the offset from (r, c) to (r2, c2) when that is one of the
\* 13 stencil offsets, and 0 otherwise.
C6_DirichletOperatorIsTruncatedStencil ==
  (Assembled /\ AllEdges(pre, "Dirichlet0")) =>
    \A r \in GridRows, c \in GridCols, r2 \in GridRows, c2 \in GridCols :
      A(r, c, r2, c2) = Coupling(r, c, r2, c2, FALSE, FALSE)

\* an operator of Dirichlet0 edges over a non-uniform rigidity with dx # dy
C6_Witness ==
  /\ Assembled /\ AllEdges(pre, "Dirichlet0") /\ pc = "done"
  /\ IsArray(pre.Te) /\ ~UniformD(self) /\ self.dx # self.dy
  /\ self.nx # self.ny
  /\ A(0, 0, 0, 1) = self.raw.cj1i0[0][0] /\ A(0, 0, 0, 1) # 0
  /\ A(0, self.nx - 1, 1, 0) = 0

InteriorRows == 2..(self.ny - 3)
InteriorCols == 2..(self.nx - 3)

\* C7: for every valid combination of edge labels, a cell at least two cells
\* from every edge keeps its raw coefficients through BC_Flexure, and its
\* row of the operator holds those 13 coefficients at the offsets
\* dy*nx + dx and nothing else.
C7_InteriorUntouched ==
  /\ (IsFD /\ NoOperatorYet /\ pc = "build_diags") =>
       \A r \in 2..(NRows(self.q0) - 3), c \in 2..(NCols(self.q0) - 3) :
         \A k \in CoeffNames : self.coef[k][r][c] = self.raw[k][r][c]
  /\ Assembled =>
       \A r \in InteriorRows, c \in InteriorCols :
         \A r2 \in GridRows, c2 \in GridCols :
           A(r, c, r2, c2) = Coupling(r, c, r2, c2, FALSE, FALSE)

\* an interior row of an operator with Periodic West and East edges and a
\* Mirror North edge over a non-uniform rigidity, whose row of the North
\* edge is not the raw stencil
C7_Witness ==
  /\ Assembled /\ pc = "done"
  /\ pre.BC_W = "Periodic" /\ pre.BC_N = "Mirror" /\ pre.BC_S = "0Moment0Shear"
  /\ IsArray(pre.Te) /\ ~UniformD(self)
  /\ A(2, 2, 0, 2) = self.raw.cj0i_2[2][2] /\ A(2, 2, 0, 2) # 0
  /\ \E c2 \in GridCols : A(0, 2, 1, c2) # Coupling(0, 2, 1, c2, TRUE, FALSE)

\* C8: for every valid combination of edge labels and a finite elastic
\* thickness, every element stored in the operator is a finite number.
C8_OperatorFinite ==
  (Assembled /\ FiniteStart) =>
    \A r \in GridRows, c \in GridCols, r2 \in GridRows, c2 \in GridCols :
      EntryFinite(self.coeff_matrix, Cell(r, c), Cell(r2, c2))

\* an operator made after the North edge marked cj_1i_1 with nan and the
\* West edge marked cj_2i0 with infinities
C8_Witness ==
  /\ Assembled /\ pc = "done"
  /\ pre.BC_N = "0Slope0Shear" /\ pre.BC_W = "0Moment0Shear"
  /\ IsArray(pre.Te)
  /\ \E k \in DOMAIN self.diags : \E j \in DOMAIN self.diags[k] :
       IsNaN(self.diags[k][j])

OnePeriodicAxis(s) ==
  \/ /\ s.BC_W = "Periodic" /\ s.BC_E = "Periodic"
     /\ s.BC_N = "Dirichlet0" /\ s.BC_S = "Dirichlet0"
  \/ /\ s.BC_N = "Periodic" /\ s.BC_S = "Periodic"
     /\ s.BC_W = "Dirichlet0" /\ s.BC_E = "Dirichlet0"

\* C9 as stated: with one pair of edges Periodic and the other Dirichlet0,
\* the entry of the operator in the row of cell (r, c) and the column of the
\* neighbour taken modulo the grid size along the periodic axis is the raw
\* coefficient of (r, c) for that offset, and every other entry is 0.
C9_PeriodicWrapIsOwnCoefficient ==
  (Assembled /\ OnePeriodicAxis(pre)) =>
    \A r \in GridRows, c \in GridCols, r2 \in GridRows, c2 \in GridCols :
      A(r, c, r2, c2) =
        Coupling(r, c, r2, c2, pre.BC_W = "Periodic", pre.BC_N = "Periodic")

\* C10 as stated: with Periodic West and East edges, any valid North and
\* South labels and uniform rigidity, the operator is unchanged when the
\* columns of both cells are shifted cyclically by the same amount.
C10_CommutesWithColumnShifts ==
  (Assembled /\ pre.BC_W = "Periodic" /\ pre.BC_E = "Periodic"
   /\ (IsScalar(pre.Te) \/ UniformD(self))) =>
    \A k \in GridCols :
      \A r \in GridRows, c \in GridCols, r2 \in GridRows, c2 \in GridCols :
        A(r, c, r2, c2) =
          A(r, (c + k) % self.nx, r2, (c2 + k) % self.nx)

\* C11: with Periodic on the four edges and uniform rigidity, the entry of the
\* operator in the row of cell (r, c) and the column of cell (r2, c2) is the
\* raw coefficient of (r, c) for the stencil offset that leads from (r, c) to
\* (r2, c2) modulo the grid size along both axes, and 0 when there is no
\* such offset: each row holds the 13 coefficients once each, the four
\* corner cells are coupled to the opposite corners.
C11_DoublyPeriodicOperatorIsCyclic ==
  (Assembled /\ AllEdges(pre, "Periodic")
   /\ (IsScalar(pre.Te) \/ UniformD(self))) =>
    \A r \in GridRows, c \in GridCols, r2 \in GridRows, c2 \in GridCols :
      A(r, c, r2, c2) = Coupling(r, c, r2, c2, TRUE, TRUE)

\* a doubly periodic operator on an oblong grid with dx # dy whose corner
\* cell (0, 0) is coupled to the opposite corner by its (-1, -1) coefficient
C11_Witness ==
  /\ Assembled /\ AllEdges(pre, "Periodic") /\ pc = "done"
  /\ UniformD(self) /\ self.dx # self.dy /\ self.nx # self.ny
  /\ A(0, 0, self.ny - 1, self.nx - 1) = self.raw.cj_1i_1[0][0]
  /\ A(0, 0, self.ny - 1, self.nx - 1) # 0
  /\ A(self.ny - 1, self.nx - 1, 0, 0) = self.raw.cj1i1[self.ny - 1][self.nx - 1]

-----------------------------------------------------------------------------
(* Properties: the ghost border of the rigidity *)

\* the padded rigidity is in place: BC_Rigidity has run to its end for array Te
Padded == IsFD /\ NoOperatorYet /\ IsArray(pre.Te) /\ self.Te_unpadded # NoArray

\* the value the rule of label bc gives a ghost cell, from the cell of the
\* edge line next to it (edge), the cell one step further inside (next) and
\* the cell of the line adjacent to the opposite edge (opposite)
GhostRule(bc, edge, next, opposite) ==
  IF bc = "Periodic" THEN opposite
  ELSE IF bc = "Mirror" THEN next
  ELSE 2 * edge - next

\* C12 as stated: for array Te, each ghost line of the padded rigidity (its
\* cells beside the interior, corners apart) follows the rule of the label of
\* its edge: the interior line adjacent to the opposite edge for Periodic, the
\* line one step inside the edge line for Mirror, 2*D_edge - D_next otherwise.
C12_GhostBorderByEdgeRule ==
  Padded =>
    LET D == self.D
        ny == NRows(self.q0)
        nx == NCols(self.q0)
    IN /\ \A r \in 1..ny :
            /\ D[r][0] = GhostRule(pre.BC_W, D[r][1], D[r][2], D[r][nx])
            /\ D[r][nx + 1] =
                 GhostRule(pre.BC_E, D[r][nx], D[r][nx - 1], D[r][1])
       /\ \A c \in 1..nx :
            /\ D[0][c] = GhostRule(pre.BC_N, D[1][c], D[2][c], D[ny][c])
            /\ D[ny + 1][c] =
                 GhostRule(pre.BC_S, D[ny][c], D[ny - 1][c], D[1][c])

-----------------------------------------------------------------------------
(* Properties: the Mirror edges *)

CoeffSeq ==
  <<"cj_2i0", "cj_1i_1", "cj_1i0", "cj_1i1", "cj0i_2", "cj0i_1", "cj0i0",
    "cj0i1", "cj0i2", "cj1i_1", "cj1i0", "cj1i1", "cj2i0">>

\* the mirror image, about the first or the last line of 0..n-1, of a line
\* index t that may lie off the grid
Reflect(t, n) == IF t < 0 THEN -t ELSE IF t > n - 1 THEN 2 * (n - 1) - t ELSE t

\* the sum of the raw coefficients of cell (r, c), among the first n of
\* CoeffSeq, whose neighbour or its mirror image is cell (r2, c2)
RECURSIVE MirrorSum(_, _, _, _, _)
MirrorSum(r, c, r2, c2, n) ==
  IF n = 0 THEN 0
  ELSE LET k == CoeffSeq[n]
           tc == Reflect(c + StencilOffset(k)[1], self.nx)
           tr == Reflect(r + StencilOffset(k)[2], self.ny)
       IN (IF tc = c2 /\ tr = r2 THEN self.raw[k][r][c] ELSE 0)
          + MirrorSum(r, c, r2, c2, n - 1)

\* cell (r, c) is within two lines of some edge, and every edge it is within
\* two lines of is a Mirror edge
BesideMirrorOnly(r, c) ==
  /\ c <= 1 \/ c >= self.nx - 2 \/ r <= 1 \/ r >= self.ny - 2
  /\ c <= 1 => pre.BC_W = "Mirror"
  /\ c >= self.nx - 2 => pre.BC_E = "Mirror"
  /\ r <= 1 => pre.BC_N = "Mirror"
  /\ r >= self.ny - 2 => pre.BC_S = "Mirror"

\* C13: for a cell whose stencil can reach only Mirror edges, whatever the
\* rigidity, every entry of its row of the operator is the raw coefficient
\* for that neighbour plus the raw coefficients of the off-grid neighbours
\* whose mirror image about the edge line is that neighbour; nothing else
\* is added anywhere.
C13_MirrorAddsToMirrorImage ==
  (Assembled /\ FiniteStart) =>
    \A r \in GridRows, c \in GridCols :
      BesideMirrorOnly(r, c) =>
        \A r2 \in GridRows, c2 \in GridCols :
          A(r, c, r2, c2) = MirrorSum(r, c, r2, c2, Len(CoeffSeq))

\* an operator with Mirror on the four edges over a non-uniform rigidity: in
\* the North-West corner the raw (-1,-1), (-1,+1) and (+1,-1) coefficients
\* have been added to (+1,+1), and on the North edge the raw (+1,-1)
\* coefficient to (+1,+1)
C13_Witness ==
  /\ Assembled /\ pc = "done" /\ AllEdges(pre, "Mirror")
  /\ IsArray(pre.Te) /\ ~UniformD(self)
  /\ self.raw.cj_1i_1[0][0] # 0 /\ self.raw.cj1i_1[0][2] # 0
  /\ self.raw.cj1i_1[0][2] # self.raw.cj_1i1[0][2]
  /\ A(0, 0, 1, 1) = self.raw.cj1i1[0][0] + self.raw.cj_1i1[0][0]
                     + self.raw.cj1i_1[0][0] + self.raw.cj_1i_1[0][0]
  /\ A(0, 2, 1, 3) = self.raw.cj1i1[0][2] + self.raw.cj1i_1[0][2]


-----------------------------------------------------------------------------
(* Properties: the solver *)

\* the solver fd_solve called did not solve the system: lgmres returned a
\* non-zero status, or spsolve was given a singular system
SolverFailed ==
  \/ (call.name = "lgmres" /\ call.info # 0)
  \/ (call.name = "spsolve" /\ call.singular)

\* C14: when the Krylov solver reports non-convergence (non-zero status), and
\* when the direct solver is given a singular system, the run ends in a
\* solver failure and no deflection w is assigned as if the solve had
\* succeeded
C14_SolverFailureSurfaces ==
  SolverFailed => (pc = "exit" /\ self.w = pre.w)


\* C15: when the iterative solver is selected, the tolerance lgmres is called
\* with is the configured iterative_ConvergenceTolerance
C15_ConfiguredToleranceIsPassed ==
  call.name = "lgmres" => call.tol = self.iterative_ConvergenceTolerance


-----------------------------------------------------------------------------
(* Properties: a sequence of solves on one instance *)

\* the operator on the instance was built by the instance, not supplied
BuiltByInstance == self.coeff_start_time # NoNumber

\* C16: in every FD solve of a sequence on one instance, an operator that
\* was not supplied by the caller has been rebuilt in this solve, from the
\* rigidity and boundary conditions current at it
C16_OperatorRebuiltEachSolve ==
  (pre.method = "FD" /\ Solving /\ BuiltByInstance) =>
     self.coeff_start_time >= self.solver_start_time


-----------------------------------------------------------------------------
(* Properties: the analytical solutions *)

\* SAS has run to its end on a grid of loads
SASSolved == pre.method = "SAS" /\ pc \in {"solved", "done"}

\* the squared distance between two cells of the grid, dn columns and dm
\* rows apart
CellDist2(dm, dn) ==
  (dn * self.dx) * (dn * self.dx) + (dm * self.dy) * (dm * self.dy)

\* the direct convolution: the sum, over the first k cells (j, i) of the
\* grid in row order, of q0[j,i]*dx*dy for the cells at squared distance d2
\* from cell (a, b)
RECURSIVE Convolution(_, _, _, _)
Convolution(a, b, d2, k) ==
  IF k = 0 THEN 0
  ELSE LET j == (k - 1) \div self.nx
           i == (k - 1) % self.nx
       IN Convolution(a, b, d2, k - 1)
          + (IF CellDist2(a - j, b - i) = d2
             THEN self.q0[j][i] * self.dx * self.dy ELSE 0)

\* C17: the gridded SAS solver computes the direct convolution
\* w[a,b] = sum over all cells (j,i) of q0[j,i]*dx*dy*K(a-j, b-i) with
\* K(m,n) = coeff*kei(sqrt((n*dx)^2 + (m*dy)^2)/alpha); every kernel window
\* lies inside the (2ny+1) x (2nx+1) array of kernel values; cells with zero
\* load contribute nothing; the output has the shape of the load
C17_SASIsDirectConvolution ==
  SASSolved =>
    LET ny == NRows(self.q0)
        nx == NCols(self.q0)
        big == bigdist2(ny, nx, self.dx, self.dy)
    IN /\ RowsOf(self.w) = RowsOf(self.q0)
       /\ ColsOf(self.w) = ColsOf(self.q0)
       /\ \A j \in 0..(ny - 1) : \A i \in 0..(nx - 1) :
            /\ ny - j >= 0 /\ 2 * ny - j <= 2 * ny + 1
            /\ nx - i >= 0 /\ 2 * nx - i <= 2 * nx + 1
            /\ NRows(Window(big, ny, nx, j, i)) = ny
            /\ NCols(Window(big, ny, nx, j, i)) = nx
       /\ \A a \in RowsOf(self.w) : \A b \in ColsOf(self.w) :
            \A d2 \in DOMAIN self.w[a][b] :
              self.w[a][b][d2] = Convolution(a, b, d2, ny * nx)
       /\ \A a \in RowsOf(self.w) : \A b \in ColsOf(self.w) :
            \A j \in 0..(ny - 1) : \A i \in 0..(nx - 1) :
              CellDist2(a - j, b - i) \in DOMAIN self.w[a][b]

\* SAS has solved an oblong grid with unequal spacings and a field of loads
\* with empty cells; the deflection of a corner cell holds the load of the
\* cell itself at distance 0 and that of its neighbour in the row at dx
C17_Witness ==
  /\ SASSolved /\ pc = "done"
  /\ self.nx # self.ny /\ self.dx # self.dy
  /\ \E j \in RowsOf(self.q0) : \E i \in ColsOf(self.q0) : self.q0[j][i] = 0
  /\ self.q0[0][0] # 0 /\ self.q0[0][1] # 0
  /\ self.w[0][0][0] = self.q0[0][0] * self.dx * self.dy
  /\ self.w[0][0][self.dx * self.dx] >= self.q0[0][1] * self.dx * self.dy


\* SAS_NG has run to its end on a set of points
PointsSolved == pre.method = "SAS_NG" /\ pc \in {"solved", "done"}

Points == DOMAIN self.x

SqDist(i, k) ==
  (self.x[i] - self.x[k]) * (self.x[i] - self.x[k])
  + (self.y[i] - self.y[k]) * (self.y[i] - self.y[k])

\* the sum of the loads q0[i] of the points i among the first n that are at
\* squared distance d2 from point k, point k itself counted or not
RECURSIVE LoadsAt(_, _, _, _)
LoadsAt(k, d2, own, n) ==
  IF n = 0 THEN 0
  ELSE LoadsAt(k, d2, own, n - 1)
       + (IF SqDist(n - 1, k) = d2 /\ (own \/ n - 1 # k)
          THEN self.q0[n - 1] ELSE 0)

\* C18 as stated: the deflection at each point k is the sum of the
\* contributions q0[i]*coeff*kei(r_ik/alpha) of every other point i # k,
\* each ordered pair once, and the output has one entry per point
C18_SumOverOtherPoints ==
  PointsSolved =>
    /\ DOMAIN self.w = DOMAIN self.q0
    /\ \A k \in Points : \A d2 \in DOMAIN self.w[k] :
         self.w[k][d2] = LoadsAt(k, d2, FALSE, Cardinality(Points))

\* C18, amended: the deflection at each point k is the sum of the
\* contributions q0[i]*coeff*kei(r_ik/alpha) of every point i, the point k
\* itself included at distance 0, each ordered pair once, and the output has
\* one entry per point
C18_SumOverAllPoints ==
  PointsSolved =>
    /\ DOMAIN self.w = DOMAIN self.q0
    /\ \A k \in Points : \A d2 \in DOMAIN self.w[k] :
         self.w[k][d2] = LoadsAt(k, d2, TRUE, Cardinality(Points))
    /\ \A k \in Points : \A i \in Points : SqDist(i, k) \in DOMAIN self.w[k]

\* SAS_NG has solved three or more points, two of them at one place, and a
\* loaded point carries its own load at distance 0 next to that of another
\* point at a distance
C18_Witness ==
  /\ PointsSolved /\ pc = "done"
  /\ Cardinality(Points) >= 3
  /\ \E i, k \in Points : i # k /\ SqDist(i, k) = 0
  /\ \E i, k \in Points :
       /\ SqDist(i, k) # 0 /\ self.q0[i] # 0 /\ self.q0[k] # 0
       /\ self.w[k][0] >= self.q0[k]
       /\ self.w[k][SqDist(i, k)] >= self.q0[i]


-----------------------------------------------------------------------------
(* Properties: the symmetries of the operator *)

\* a square grid with equal spacings, a uniform elastic thickness and the
\* label bc on all four edges
SquareUniform(bc) ==
  /\ Assembled
  /\ self.nx = self.ny /\ self.nx >= 5 /\ self.dx = self.dy
  /\ (IsScalar(pre.Te) \/ UniformD(self))
  /\ AllEdges(pre, bc)

\* the operator is the same after a left-right reflection, a top-bottom
\* reflection and a transposition of the grid
Symmetric ==
  \A r, r2 \in GridRows : \A c, c2 \in GridCols :
    /\ A(r, c, r2, c2) = A(r, self.nx - 1 - c, r2, self.nx - 1 - c2)
    /\ A(r, c, r2, c2) = A(self.ny - 1 - r, c, self.ny - 1 - r2, c2)
    /\ A(r, c, r2, c2) = A(c, r, c2, r2)

\* C19: on a square grid (nx = ny >= 5, dx = dy) with uniform Te and Mirror
\* or 0Slope0Shear on all four sides, the assembled operator is invariant
\* under left-right reflection, top-bottom reflection and transposition
C19_OperatorHasGridSymmetries ==
  (SquareUniform("Mirror") \/ SquareUniform("0Slope0Shear")) => Symmetric

\* the operator of a square grid with 0Slope0Shear on all four edges has
\* been assembled for a uniform array of elastic thicknesses; the rows of
\* its edge cells differ from the interior rows
C19_Witness ==
  /\ SquareUniform("0Slope0Shear") /\ pc = "done"
  /\ IsArray(pre.Te) /\ self.nx = MaxN
  /\ A(0, 2, 1, 2) # A(2, 2, 3, 2)
  /\ A(0, 0, 1, 1) # A(2, 2, 3, 3)
  /\ A(0, 0, 1, 1) = A(0, self.nx - 1, 1, self.nx - 2)
  /\ A(2, 0, 2, 1) = A(0, 2, 1, 2)


-----------------------------------------------------------------------------
(* Properties: the defaults of r.flexure *)

\* an FD run set up with the labels the options of r.flexure offer, one of
\* them at least being the default of an option left out
DefaultBoundaryOption ==
  /\ IsFD /\ NoOperatorYet
  /\ {pre.BC_W, pre.BC_E, pre.BC_N, pre.BC_S} \subseteq BCLabels \cup {DefaultBC}
  /\ DefaultBC \in {pre.BC_W, pre.BC_E, pre.BC_N, pre.BC_S}

\* C20: the label r.flexure hands to the solver for a boundary option left
\* at its default is one of the five labels the FD solver accepts, and an FD
\* run with default boundary options does not end in the error of an
\* invalid boundary condition
C20_DefaultLabelAccepted ==
  /\ DefaultBC \in BCLabels
  /\ DefaultBoundaryOption =>
       ~(pc = "exit" /\ exitmsg \in {"Invalid Te B.C. case", InvalidBC})


-----------------------------------------------------------------------------
(* Properties: the grid spacing of r.flexure *)

\* r.flexure has set the grid spacing for a latitude/longitude region with
\* the flag l
LatLon == env.region.proj = "3" /\ env.l

\* C21: with a latitude/longitude region and the flag l, GridSpacing_x is
\* the east-west resolution times the length of a degree of longitude at
\* the mid-latitude of the region, and GridSpacing_y is the north-south
\* resolution times the fixed length of a degree of latitude
C21_LatLonSpacing ==
  LatLon =>
    /\ self.dx = env.region.ewres
                 * dx_at_mid_latitude((env.region.n + env.region.s) \div 2)
    /\ self.dy = env.region.nsres * PerDegree


-----------------------------------------------------------------------------
(* Properties: the sums of the coefficients *)

\* get_coeff_values has run in a solve that builds the operator
CoefficientsBuilt ==
  IsFD /\ NoOperatorYet /\ self.raw # NoCoeffs
  /\ pc \in {"BC_Flexure", "build_diags", "fd_solve", "solved", "done"}

\* the sum of the 13 pre-BC coefficients of cell (r, c)
RawSum(r, c) ==
  self.raw.cj2i0[r][c] + self.raw.cj1i_1[r][c] + self.raw.cj1i0[r][c]
  + self.raw.cj1i1[r][c] + self.raw.cj0i_2[r][c] + self.raw.cj0i_1[r][c]
  + self.raw.cj0i0[r][c] + self.raw.cj0i1[r][c] + self.raw.cj0i2[r][c]
  + self.raw.cj_1i_1[r][c] + self.raw.cj_1i0[r][c] + self.raw.cj_1i1[r][c]
  + self.raw.cj_2i0[r][c]

\* drho*g in the scale of the stored coefficients
Buoyancy == Plain(self, self.drho * self.g)

\* C26: for every cell and every implemented stencil over any rigidity
\* field, the 13 pre-BC coefficients sum to drho*g
C26_RawCoefficientsSumToBuoyancy ==
  CoefficientsBuilt =>
    \A r \in RowsOf(self.q0) : \A c \in ColsOf(self.q0) :
      RawSum(r, c) = Buoyancy


\* the sum of the first n entries of the row of cell (r, c) of the operator
RECURSIVE RowSum(_, _, _)
RowSum(r, c, n) ==
  IF n = 0 THEN 0
  ELSE RowSum(r, c, n - 1) + MatEntry(self.coeff_matrix, Cell(r, c), n - 1)

\* every edge moves the weight of its off-grid coefficients into the grid:
\* 0Moment0Shear, 0Slope0Shear, Mirror, or Periodic in pairs
WeightKeepingEdges(s) ==
  /\ {s.BC_W, s.BC_E, s.BC_N, s.BC_S} \subseteq BCLabels \ {"Dirichlet0"}
  /\ (s.BC_W = "Periodic") = (s.BC_E = "Periodic")
  /\ (s.BC_N = "Periodic") = (s.BC_S = "Periodic")

\* C23: when every edge is 0Moment0Shear, 0Slope0Shear, Mirror or, in pairs,
\* Periodic, for a uniform rigidity or a variable one under vWC1994, every
\* row of the assembled operator, the rows of the corner cells included,
\* sums to the sum of the 13 pre-BC coefficients of its cell, drho*g
C23_RowSumsKept ==
  (Assembled /\ WeightKeepingEdges(pre)
   /\ (IsScalar(pre.Te) \/ UniformD(self) \/ pre.PlateSolutionType = "vWC1994")) =>
    \A r \in GridRows : \A c \in GridCols :
      /\ RowSum(r, c, self.ny * self.nx) = RawSum(r, c)
      /\ RawSum(r, c) = Buoyancy


-----------------------------------------------------------------------------
(* Properties: the elimination of the ghost cells *)

\* the cell <<row, column>> that lies at position a along the edge e and at
\* depth d inside it (depth -1 and -2 are the ghost lines of the edge)
AtEdge(e, a, d) ==
  CASE e = "W" -> <<a, d>>
    [] e = "E" -> <<a, self.nx - 1 - d>>
    [] e = "N" -> <<d, a>>
    [] e = "S" -> <<self.ny - 1 - d, a>>

EdgeLabel(s, e) ==
  CASE e = "W" -> s.BC_W [] e = "E" -> s.BC_E
    [] e = "N" -> s.BC_N [] e = "S" -> s.BC_S

EdgeLength(e) == IF e \in {"W", "E"} THEN self.ny ELSE self.nx

\* what boundary handling added to the operator entry of the equation of
\* cell p for the in-grid cell t
Added(p, t) ==
  A(p[1], p[2], t[1], t[2]) - Coupling(p[1], p[2], t[1], t[2], FALSE, FALSE)

\* the raw coefficient by which the equation of cell p refers to the cell g
RawToward(p, g) == Coupling(p[1], p[2], g[1], g[2], FALSE, FALSE)

\* C24 as stated: on an edge with 0Moment0Shear, 0Slope0Shear or Mirror, the
\* ghost cell of depth -1 at position a - 1 is replaced by the same linear
\* combination of the in-grid cells of its line in the equation of the edge
\* cell at position a (its diagonal neighbour, offset -1) and in the equation
\* of the cell of depth 1 at position a - 1 (offset -2): what each equation
\* gained at every in-grid cell is the same multiple of the raw coefficient
\* by which it refers to the ghost cell.
C24_GhostReplacedAlike ==
  Assembled =>
    \A e \in {"W", "E", "N", "S"} :
      EdgeLabel(pre, e) \in {"0Moment0Shear", "0Slope0Shear", "Mirror"} =>
        \A a \in 3..(EdgeLength(e) - 3) :
          LET ghost == AtEdge(e, a - 1, 0 - 1)
              p0 == AtEdge(e, a, 0)
              p1 == AtEdge(e, a - 1, 1)
          IN \A d \in 0..3 :
               Added(p0, AtEdge(e, a - 1, d)) * RawToward(p1, ghost) =
                 Added(p1, AtEdge(e, a - 1, d)) * RawToward(p0, ghost)


-----------------------------------------------------------------------------
(* Properties: reflection of the grid *)

\* the operator that boundary handling and assembly make of the raw
\* coefficients of s
OperatorFor(s) == BuildDiags(BCFlexure([s EXCEPT !.coef = s.raw]).s).coeff_matrix

ExchangedWE(s) == [s EXCEPT !.BC_W = s.BC_E, !.BC_E = s.BC_W]
ExchangedNS(s) == [s EXCEPT !.BC_N = s.BC_S, !.BC_S = s.BC_N]

\* C25 as stated: for uniform rigidity on a grid of at least 5 x 5, the
\* operator built with the West and East labels exchanged is the left-right
\* mirror image of the operator built, and the operator built with the North
\* and South labels exchanged is its up-down mirror image, for every valid
\* combination of labels.
C25_LabelExchangeMirrorsOperator ==
  (Assembled /\ pc = "done" /\ (IsScalar(pre.Te) \/ UniformD(self))
   /\ self.nx >= 5 /\ self.ny >= 5) =>
    LET WE == OperatorFor(ExchangedWE(self))
        NS == OperatorFor(ExchangedNS(self))
    IN \A r \in GridRows, c \in GridCols, r2 \in GridRows, c2 \in GridCols :
         /\ MatEntry(WE, Cell(r, c), Cell(r2, c2)) =
              A(r, self.nx - 1 - c, r2, self.nx - 1 - c2)
         /\ MatEntry(NS, Cell(r, c), Cell(r2, c2)) =
              A(self.ny - 1 - r, c, self.ny - 1 - r2, c2)


-----------------------------------------------------------------------------
(* Properties: what boundary handling and assembly write *)

\* C27: no step of BC_Flexure, ended or aborted, and no step of build_diags
\* changes any of the 13 raw coefficient arrays; of the coefficient arrays
\* BC_Flexure writes the working arrays and the periodic auxiliary arrays
\* only, and it writes no other attribute.
C27_RawCoefficientsKept ==
  [][/\ pc \in {"BC_Flexure", "build_diags"} => self'.raw = self.raw
     /\ pc = "BC_Flexure" =>
          \A f \in (DOMAIN self) \ {"coef", "per"} : self'[f] = self[f]]_vars

\* an operator assembled by this run over a non-uniform rigidity with a
\* periodic axis: the working arrays and the auxiliary arrays have been
\* rewritten, the raw arrays still are what get_coeff_values computes
C27_Witness ==
  /\ Assembled /\ pc = "done"
  /\ IsArray(pre.Te) /\ ~UniformD(self)
  /\ pre.BC_W = "Periodic" /\ pre.BC_N = "0Moment0Shear"
  /\ self.raw = RawCoeffs(self)
  /\ self.coef # self.raw
  /\ \E k \in DOMAIN self.per : self.per[k] # NoArray


-----------------------------------------------------------------------------
(* Properties: the padded rigidity *)

\* the rigidity has just been padded and its border filled
RigidityPadded ==
  IsFD /\ NoOperatorYet /\ IsArray(pre.Te) /\ pc = "get_coeff_values"

\* C28: for array Te of finite values on a grid of at least 3 x 3, after
\* BC_Rigidity every cell of the padded rigidity, the four ghost corners
\* included, holds a number: no nan of the padding is left, whatever the four
\* edge labels.
C28_PaddedRigidityFinite ==
  (RigidityPadded /\ FiniteStart
   /\ NRows(self.q0) >= 3 /\ NCols(self.q0) >= 3) =>
    /\ NRows(self.D) = NRows(self.q0) + 2
    /\ NCols(self.D) = NCols(self.q0) + 2
    /\ \A r \in RowsOf(self.D), c \in ColsOf(self.D) :
         self.D[r][c] # NaN /\ ~IsInf(self.D[r][c])

\* a padded non-uniform rigidity whose edges are filled by the three kinds of
\* rule: zero curvature to the North, mirror symmetry to the West and to the
\* South; the North-West corner comes from the West copy of the North ghost row
C28_Witness ==
  /\ RigidityPadded
  /\ self.BC_Rigidity_N = "0 curvature"
  /\ self.BC_Rigidity_W = "mirror symmetry"
  /\ self.BC_Rigidity_S = "mirror symmetry"
  /\ self.D[1][1] # self.D[1][2]
  /\ self.D[0][0] = 2 * self.D[1][2] - self.D[2][2]
  /\ self.D[0][0] # NaN


-----------------------------------------------------------------------------
(* Properties: the state left by an aborted solve *)

\* the solve has ended with the error of the unpaired Periodic edge
AbortedUnpaired == pc = "exit" /\ exitmsg = NotPhysical

\* C29 as stated: when the solve aborts with the error of the unpaired
\* Periodic edge, Te, D and every coefficient array, raw, working and
\* periodic auxiliary, are what they were when the solve started.
C29_AbortLeavesStateAsBefore ==
  AbortedUnpaired =>
    /\ self.Te = pre.Te
    /\ self.D = pre.D
    /\ self.raw = pre.raw
    /\ self.coef = pre.coef
    /\ self.per = pre.per


-----------------------------------------------------------------------------
(* Properties: solves that follow one another on one instance *)

SameShape(X, Y) == NRows(X) = NRows(Y) /\ NCols(X) = NCols(Y)

\* C30 as stated: in every FD solve with array Te on an instance, the first
\* or a later one, the coefficient arrays built have the shape of the load,
\* the elastic thickness they are built from is the one the caller set, free
\* of padding, and the operator assembled has nx*ny rows.
C30_EveryBuildHasLoadShape ==
  (IsFD /\ NoOperatorYet /\ IsArray(pre.Te)) =>
    /\ pc \in {"BC_Flexure", "build_diags"} =>
         \A k \in CoeffNames : SameShape(self.raw[k], self.q0)
    /\ pc = "get_coeff_values" =>
         /\ SameShape(self.Te_unpadded, self.q0)
         /\ SameShape(self.D, PadNaN(self.q0))
         /\ \A r \in RowsOf(self.Te_unpadded), c \in ColsOf(self.Te_unpadded) :
              self.Te_unpadded[r][c] # NaN
    /\ pc = "fd_solve" =>
         self.coeff_matrix.n = NRows(self.q0) * NCols(self.q0)
    /\ pc = "exit" => exitmsg # DimensionMismatch

=============================================================================
